---- MODULE Spec2Model ----
(***************************************************************************)
(* The printer registry store of the dashboard (src/lib/server/            *)
(* printerStore.ts) and the part of the registry endpoint that feeds it    *)
(* (routes/api/printer-registry/+server.ts, parseStates).                  *)
(*                                                                         *)
(* The store keeps one JSON file and one module-level cache.  Every        *)
(* exported operation is an async function: between its awaits (reading    *)
(* the file, writing the file) other calls run.  A call is therefore a     *)
(* small process: Call* is the synchronous prefix, ReadFile the moment the *)
(* file is read, AfterRead the continuation of the read, WriteFile the     *)
(* moment the file is replaced, AfterWrite the continuation of the write.  *)
(***************************************************************************)
EXTENDS Integers, Sequences, FiniteSets, TLC

VARIABLES
    disk,        \* content of data/printer-store.json
    cache,       \* `cache` of printerStore.ts: NoCache or {snapshot, expiresAt}
    clock,       \* Date.now()
    ids,         \* number of identifiers createId() has handed out
    calls,       \* number of calls started so far
    pc,          \* pc[p]: where call slot p stands
    op,          \* op[p]: the operation slot p runs, with its arguments
    raw,         \* raw[p]: what slot p's readFile returned
    cur,         \* cur[p]: `current`, the result of readSnapshotFromDisk
    next,        \* next[p]: the snapshot slot p is about to write
    result,      \* result[p]: how slot p's last call ended
    before,      \* before[p]: the file and the cache when slot p's call began
    lastWriter,  \* the slot whose writeFile replaced the file last
    http,        \* http[p]: the registry request slot p serves, and its response
    proxy,       \* the request an upstream proxy is serving, its fetch and its timer
    telemetry,   \* one reading of Moonraker on its way to the page and to the widget
    page,        \* the registry page in the browser: its registry, polls and timers
    center,      \* the command center in the browser: its socket and timers
    session      \* the registry page again, with the content of its state map

storeVars == <<disk, cache, clock, ids, calls, pc, op, raw, cur, next, result, before, lastWriter>>

(* What the store on its own leaves alone. *)
beyondStore == <<http, proxy, telemetry, page, center, session>>

(* What the registry endpoint leaves alone. *)
beyondRegistry == <<proxy, telemetry, page, center, session>>

(* What the upstream proxies leave alone. *)
beyondProxy == <<storeVars, http, telemetry, page, center, session>>

(* What the path of a reading leaves alone. *)
beyondTelemetry == <<storeVars, http, proxy, page, center, session>>

(* What the components in the browser leave alone. *)
beyondPage == <<storeVars, http, proxy, telemetry, center, session>>
beyondCenter == <<storeVars, http, proxy, telemetry, page, session>>

(* What the state map of the registry page leaves alone. *)
beyondSession == <<storeVars, http, proxy, telemetry, page, center>>

vars == <<storeVars, beyondStore>>

----------------------------------------------------------------------------
(* Bounds of the model *)

MaxCalls == 3
MaxIds == 4
TickMs == 5000
MaxClock == 5000

(* Program constants *)

CACHE_TTL_MS == 5000

(* The call slots: at most two calls are in flight at the same time. *)
Procs == {1, 2}

----------------------------------------------------------------------------
(* JSON values.  Every value carries its JavaScript type in t. *)

Absent == [t |-> "undefined"]
Null == [t |-> "null"]
Num(n) == [t |-> "number", v |-> n]
Str(s) == [t |-> "string", s |-> s]
Arr(items) == [t |-> "array", items |-> items]
Obj(map) == [t |-> "object", map |-> map]

EmptyMap == [k \in {} |-> Null]

(* `states?: Record<string, StoredPrinterState>` of an in-memory snapshot:
   undefined, or an object (which may be empty). *)
Undefined == [defined |-> FALSE, map |-> EmptyMap]
Defined(m) == [defined |-> TRUE, map |-> m]

Range(s) == {s[i] : i \in DOMAIN s}

(* String.prototype.trim on the strings the model uses. *)
Trim(s) ==
    CASE s = " " -> ""
      [] s = " Voron " -> "Voron"
      [] s = " Lab " -> "Lab"
      [] s = "http://x " -> "http://x"
      [] s = " G28 " -> "G28"
      [] s = " 60 " -> "60"
      [] s = " 0.42 " -> "0.42"
      [] OTHER -> s

(* createId(): the k-th identifier handed out; randomUUID never repeats and
   never equals an identifier written by hand into the file. *)
createId(k) == "id" \o ToString(k)

----------------------------------------------------------------------------
(* Entries of a snapshot.  id, name, baseUrl and nodeId are strings (""
   is the empty string); createdAt is a JSON value. *)

NodeEntry(id, name, createdAt) ==
    [t |-> "object", id |-> id, name |-> name, createdAt |-> createdAt]

PrinterEntry(id, name, baseUrl, nodeId, createdAt) ==
    [t |-> "object", id |-> id, name |-> name, baseUrl |-> baseUrl,
     nodeId |-> nodeId, createdAt |-> createdAt]

StateEntry(label, variant, progress, error, updatedAt, message) ==
    [t |-> "object", label |-> label, variant |-> variant, progress |-> progress,
     error |-> error, updatedAt |-> updatedAt, message |-> message]

isValidNode(entry) ==
    /\ entry.t = "object"
    /\ entry.id # ""
    /\ entry.name # ""
    /\ entry.createdAt.t = "number"

(* isValidPrinter without the lookup of nodeId among the nodes. *)
isValidPrinterAnyNode(entry, nodeIds) ==
    /\ entry.t = "object"
    /\ entry.id # ""
    /\ entry.name # ""
    /\ entry.baseUrl # ""
    /\ entry.createdAt.t = "number"

isValidPrinter(entry, nodeIds) ==
    /\ entry.t = "object"
    /\ entry.id # ""
    /\ entry.name # ""
    /\ entry.baseUrl # ""
    /\ entry.nodeId \in nodeIds
    /\ entry.createdAt.t = "number"

isValidState(entry) ==
    /\ entry.t = "object"
    /\ LET state == entry
           isValidLabel == state.label.t = "string" /\ state.label.s # ""
           isValidVariant == state.variant.t = "string"
           isValidProgress == state.progress.t = "null" \/ state.progress.t = "number"
           isValidError == state.error.t = "null" \/ state.error.t = "string"
           isValidUpdatedAt == state.updatedAt.t = "null" \/ state.updatedAt.t = "number"
           isValidMessage == state.message.t = "null" \/ state.message.t = "string"
       IN  /\ isValidLabel
           /\ isValidVariant
           /\ isValidProgress
           /\ isValidError
           /\ isValidUpdatedAt
           /\ isValidMessage

----------------------------------------------------------------------------
(* Snapshots.  In memory: {nodes, printers, states, updatedAt}.  As a JSON
   document (what JSON.parse returns, and what sanitizeSnapshot accepts):
   the same four keys holding JSON values. *)

Snapshot(nodes, printers, states, updatedAt) ==
    [nodes |-> nodes, printers |-> printers, states |-> states, updatedAt |-> updatedAt]

Doc(nodes, printers, states, updatedAt) ==
    [nodes |-> nodes, printers |-> printers, states |-> states, updatedAt |-> updatedAt]

(* The JSON document of an in-memory snapshot: JSON.stringify leaves out a
   key whose value is undefined. *)
AsDoc(snapshot) ==
    Doc(Arr(snapshot.nodes),
        Arr(snapshot.printers),
        IF snapshot.states.defined THEN Obj(snapshot.states.map) ELSE Absent,
        Num(snapshot.updatedAt))

NodeIdsOf(snapshot) == {n.id : n \in Range(snapshot.nodes)}
PrinterIdsOf(snapshot) == {p.id : p \in Range(snapshot.printers)}
StateKeysOf(snapshot) == DOMAIN snapshot.states.map

sanitizeSnapshot(snapshot, nowTs) ==
    LET nodesSource == IF snapshot.nodes.t = "array" THEN snapshot.nodes.items ELSE <<>>
        nodes == SelectSeq(nodesSource, isValidNode)
        nodeIds == {n.id : n \in Range(nodes)}
        printersSource == IF snapshot.printers.t = "array" THEN snapshot.printers.items ELSE <<>>
        printers == SelectSeq(printersSource, LAMBDA entry : isValidPrinter(entry, nodeIds))
        statesSource == IF snapshot.states.t = "object" THEN snapshot.states.map ELSE EmptyMap
        printerIds == {p.id : p \in Range(printers)}
        validStates == {k \in DOMAIN statesSource :
                           k \in printerIds /\ isValidState(statesSource[k])}
        states == IF validStates # {}
                  THEN Defined([k \in validStates |-> statesSource[k]])
                  ELSE Undefined
    IN  Snapshot(nodes, printers, states,
                 IF snapshot.updatedAt.t = "number" THEN snapshot.updatedAt.v ELSE nowTs)

EmptySnapshot(nowTs) == Snapshot(<<>>, <<>>, Undefined, nowTs)

(* The file: missing (ENOENT), not parseable, or a JSON document. *)
Missing == [kind |-> "missing"]
Corrupt == [kind |-> "corrupt"]
Json(doc) == [kind |-> "json", doc |-> doc]

(* readSnapshotFromDisk that takes every object entry of the file without
   validating it. *)
readSnapshotUnchecked(file, nowTs) ==
    IF file.kind = "json"
    THEN LET doc == file.doc
             IsObject(entry) == entry.t = "object"
             nodes == IF doc.nodes.t = "array" THEN SelectSeq(doc.nodes.items, IsObject) ELSE <<>>
             printers == IF doc.printers.t = "array"
                         THEN SelectSeq(doc.printers.items, IsObject) ELSE <<>>
             kept == IF doc.states.t = "object"
                     THEN {k \in DOMAIN doc.states.map : doc.states.map[k].t = "object"}
                     ELSE {}
         IN  Snapshot(nodes, printers,
                      IF kept # {} THEN Defined([k \in kept |-> doc.states.map[k]]) ELSE Undefined,
                      IF doc.updatedAt.t = "number" THEN doc.updatedAt.v ELSE nowTs)
    ELSE EmptySnapshot(nowTs)

(* readSnapshotFromDisk, given what readFile found. *)
readSnapshotFromDisk(file, nowTs) ==
    IF file.kind = "json"
    THEN sanitizeSnapshot(file.doc, nowTs)
    ELSE EmptySnapshot(nowTs)

(* A write that only creates the file (flag 'wx'): a file that is there
   stays as it is. *)
writeFileCreatesOnly(old, snapshot) ==
    IF old.kind = "missing" THEN Json(AsDoc(snapshot)) ELSE old

(* The file writeSnapshotToDisk leaves: the whole document, replacing
   whatever was there. *)
writeFile(old, snapshot) == Json(AsDoc(snapshot))

----------------------------------------------------------------------------
(* What a mutator gives back: a snapshot, or a thrown Error. *)

Returned(snapshot) == [threw |-> FALSE, snapshot |-> snapshot]
Thrown(message) == [threw |-> TRUE, error |-> message]

Truthy(value) == value.t = "string" /\ value.s # ""

Without(map, keys) == [k \in (DOMAIN map) \ keys |-> map[k]]

(* The copy `current.states ? { ...current.states } : undefined`. *)
CopyStates(states) == IF states.defined THEN Defined(states.map) ELSE Undefined

(* The mutator registerPrinter hands to updateSnapshot.  name and baseUrl
   are already trimmed; k identifiers have been handed out before. *)
registerNodeExists(current, input) ==
    /\ Truthy(input.nodeId)
    /\ \E n \in Range(current.nodes) : n.id = input.nodeId.s

(* registerPrinter that makes a node whenever a node name is given, also
   when nodeId names an existing node. *)
registerPrefersNodeName(current, input, name, baseUrl, k, nowTs) ==
    LET states == CopyStates(current.states)
        nodeName == IF input.nodeName.t = "string" THEN Trim(input.nodeName.s) ELSE ""
        nodeExists == registerNodeExists(current, input) /\ nodeName = ""
        newNode == NodeEntry(createId(k + 1), nodeName, Num(nowTs))
        nodes == IF nodeExists THEN current.nodes ELSE Append(current.nodes, newNode)
        targetNodeId == IF nodeExists THEN input.nodeId.s ELSE newNode.id
        printerId == IF nodeExists THEN createId(k + 1) ELSE createId(k + 2)
        printer == PrinterEntry(printerId, name, baseUrl, targetNodeId, Num(nowTs))
        printers == Append(current.printers, printer)
    IN  IF ~nodeExists /\ nodeName = ""
        THEN Thrown("El nodo de destino no es valido.")
        ELSE Returned(Snapshot(nodes, printers, states, current.updatedAt))

registerPrinterMutator(current, input, name, baseUrl, k, nowTs) ==
    LET states == CopyStates(current.states)
        nodeExists == registerNodeExists(current, input)
        nodeName == IF input.nodeName.t = "string" THEN Trim(input.nodeName.s) ELSE ""
        newNode == NodeEntry(createId(k + 1), nodeName, Num(nowTs))
        nodes == IF nodeExists THEN current.nodes ELSE Append(current.nodes, newNode)
        targetNodeId == IF nodeExists THEN input.nodeId.s ELSE newNode.id
        printerId == IF nodeExists THEN createId(k + 1) ELSE createId(k + 2)
        printer == PrinterEntry(printerId, name, baseUrl, targetNodeId, Num(nowTs))
        printers == Append(current.printers, printer)
        pruned == IF states.defined /\ printerId \in DOMAIN states.map
                  THEN Defined(Without(states.map, {printerId}))
                  ELSE states
    IN  IF ~nodeExists /\ nodeName = ""
        THEN Thrown("El nodo de destino no es valido.")
        ELSE Returned(Snapshot(nodes, printers, pruned, current.updatedAt))

(* createId() calls of a registerPrinter mutator that does not throw. *)
registerIdsUsed(current, input) == IF registerNodeExists(current, input) THEN 1 ELSE 2

(* removePrinter that also drops the nodes left without a printer. *)
removePrinterDropsEmptyNodes(current, printerId) ==
    LET printers == SelectSeq(current.printers, LAMBDA printer : printer.id # printerId)
        nodes == SelectSeq(current.nodes,
                           LAMBDA node : \E printer \in Range(printers) : printer.nodeId = node.id)
        states == CopyStates(current.states)
        pruned == IF states.defined THEN Defined(Without(states.map, {printerId})) ELSE states
    IN  IF Len(printers) = Len(current.printers)
        THEN Thrown("La impresora indicada no existe.")
        ELSE Returned(Snapshot(nodes, printers, pruned, current.updatedAt))

(* removePrinter that takes an unknown id for a removal of nothing. *)
removePrinterNeverMissing(current, printerId) ==
    LET printers == SelectSeq(current.printers, LAMBDA printer : printer.id # printerId)
        states == CopyStates(current.states)
        pruned == IF states.defined THEN Defined(Without(states.map, {printerId})) ELSE states
    IN  Returned(Snapshot(current.nodes, printers, pruned, current.updatedAt))

removePrinterMutator(current, printerId) ==
    LET printers == SelectSeq(current.printers, LAMBDA printer : printer.id # printerId)
        states == CopyStates(current.states)
        pruned == IF states.defined THEN Defined(Without(states.map, {printerId})) ELSE states
    IN  IF Len(printers) = Len(current.printers)
        THEN Thrown("La impresora indicada no existe.")
        ELSE Returned(Snapshot(current.nodes, printers, pruned, current.updatedAt))

(* removeNode that removes the printers of the node and keeps the node. *)
removeNodeKeepsNode(current, nodeId) ==
    LET nodes == SelectSeq(current.nodes, LAMBDA node : node.id # nodeId)
        printers == SelectSeq(current.printers, LAMBDA printer : printer.nodeId # nodeId)
        states == CopyStates(current.states)
        kept == {k \in DOMAIN states.map : \E printer \in Range(printers) : printer.id = k}
        pruned == IF states.defined
                  THEN IF kept = {} THEN Undefined ELSE Defined([k \in kept |-> states.map[k]])
                  ELSE states
    IN  IF Len(nodes) = Len(current.nodes)
        THEN Thrown("El nodo indicado no existe.")
        ELSE Returned(Snapshot(current.nodes, printers, pruned, current.updatedAt))

removeNodeMutator(current, nodeId) ==
    LET nodes == SelectSeq(current.nodes, LAMBDA node : node.id # nodeId)
        printers == SelectSeq(current.printers, LAMBDA printer : printer.nodeId # nodeId)
        states == CopyStates(current.states)
        kept == {k \in DOMAIN states.map : \E printer \in Range(printers) : printer.id = k}
        pruned == IF states.defined
                  THEN IF kept = {} THEN Undefined ELSE Defined([k \in kept |-> states.map[k]])
                  ELSE states
    IN  IF Len(nodes) = Len(current.nodes)
        THEN Thrown("El nodo indicado no existe.")
        ELSE Returned(Snapshot(nodes, printers, pruned, current.updatedAt))

(* upsertPrinterStates that refuses a call naming an unknown printer. *)
upsertRejectsUnknown(current, entries) ==
    LET activePrinterIds == {printer.id : printer \in Range(current.printers)}
        base == IF current.states.defined THEN current.states.map ELSE EmptyMap
        merged == {k \in DOMAIN entries : isValidState(entries[k])}
        states == [k \in (DOMAIN base) \cup merged |->
                      IF k \in merged THEN entries[k] ELSE base[k]]
    IN  IF \E k \in DOMAIN entries : k \notin activePrinterIds
        THEN Thrown("La impresora indicada no existe.")
        ELSE Returned(Snapshot(current.nodes, current.printers,
                               IF DOMAIN states # {} THEN Defined(states) ELSE Undefined,
                               current.updatedAt))

upsertPrinterStatesMutator(current, entries) ==
    LET activePrinterIds == {printer.id : printer \in Range(current.printers)}
        base == IF current.states.defined THEN current.states.map ELSE EmptyMap
        merged == {k \in DOMAIN entries : k \in activePrinterIds /\ isValidState(entries[k])}
        states == [k \in (DOMAIN base) \cup merged |->
                      IF k \in merged THEN entries[k] ELSE base[k]]
    IN  Returned(Snapshot(current.nodes, current.printers,
                          IF DOMAIN states # {} THEN Defined(states) ELSE Undefined,
                          current.updatedAt))

(* parseStates of the registry endpoint: the `states` member of a
   sync-states body, as the record upsertPrinterStates receives. *)
parseStates(value) ==
    IF value.t # "object"
    THEN EmptyMap
    ELSE LET kept == {k \in DOMAIN value.map : value.map[k].t = "object"}
         IN  [k \in kept |-> value.map[k]]

(* updateSnapshot after the mutator returned: re-sanitize, stamp. *)
updateSnapshotNext(mutated, nowTs) ==
    LET sane == sanitizeSnapshot(AsDoc(mutated), nowTs)
    IN  [sane EXCEPT !.updatedAt = nowTs]

(* maybeSeedDefaults: the snapshot as it is, or the seeded one (which is
   then written). *)
seedNeeded(snapshot, defaults) ==
    /\ ~(Len(snapshot.nodes) > 0 /\ Len(snapshot.printers) > 0)
    /\ Truthy(defaults.baseUrl)

(* maybeSeedDefaults that takes the printer name as it is given. *)
seededSnapshotRawName(snapshot, defaults, k, nowTs) ==
    LET printerName == IF defaults.printerName.t = "string" THEN defaults.printerName.s
                       ELSE "Impresora principal"
        principalNode == NodeEntry(createId(k + 1), "Nodo principal", Num(nowTs))
        principalPrinter == PrinterEntry(createId(k + 2), printerName, defaults.baseUrl.s,
                                         principalNode.id, Num(nowTs))
    IN  Snapshot(<<principalNode>>, <<principalPrinter>>, snapshot.states, nowTs)

seededSnapshot(snapshot, defaults, k, nowTs) ==
    LET trimmed == IF defaults.printerName.t = "string" THEN Trim(defaults.printerName.s) ELSE ""
        printerName == IF trimmed # "" THEN trimmed ELSE "Impresora principal"
        principalNode == NodeEntry(createId(k + 1), "Nodo principal", Num(nowTs))
        principalPrinter == PrinterEntry(createId(k + 2), printerName, defaults.baseUrl.s,
                                         principalNode.id, Num(nowTs))
    IN  Snapshot(<<principalNode>>, <<principalPrinter>>, snapshot.states, nowTs)

----------------------------------------------------------------------------
(* The files the store may find when the process starts: the file is meant
   to be edited by hand, so anything may be in it. *)

IdleState == StateEntry(Str("Idle"), Str("idle"), Null, Null, Num(0), Null)
PrintingState == StateEntry(Str("Printing"), Str("printing"), Num(42), Null, Num(5), Str("layer 3"))
OddState == StateEntry(Str("Warp"), Str("warp-drive"), Num(250), Null, Null, Null)
BlankLabelState == StateEntry(Str(""), Str("idle"), Null, Null, Null, Null)
UntypedState == StateEntry(Str("Idle"), Num(1), Str("half"), Null, Null, Null)

WellFormedFile ==
    Json(Doc(Arr(<<NodeEntry("n1", "Lab", Num(0)), NodeEntry("n2", "Shed", Num(0))>>),
             Arr(<<PrinterEntry("p1", "Voron", "http://x", "n1", Num(0)),
                   PrinterEntry("p2", "Ender", "http://y", "n2", Num(0))>>),
             Obj([k \in {"p1"} |-> IdleState]),
             Num(0)))

DanglingFile ==
    Json(Doc(Arr(<<NodeEntry("n1", "Lab", Num(0)), NodeEntry("n2", "", Num(0)), Null>>),
             Arr(<<PrinterEntry("p1", "Voron", "http://x", "n1", Num(0)),
                   PrinterEntry("p2", "Ender", "http://y", "n2", Num(0)),
                   PrinterEntry("p3", "Prusa", "http://z", "n1", Null)>>),
             Obj([k \in {"p1", "p2", "zz"} |->
                     IF k = "p1" THEN BlankLabelState ELSE PrintingState]),
             Null))

DuplicateFile ==
    Json(Doc(Arr(<<NodeEntry("n1", "Lab", Num(0)), NodeEntry("n1", "Shed", Num(0)),
                   NodeEntry("n2", "Den", Num(0))>>),
             Arr(<<PrinterEntry("p1", "Voron", "http://x", "n1", Num(0)),
                   PrinterEntry("p1", "Ender", "http://y", "n2", Num(0))>>),
             Obj([k \in {"p1", "n1"} |-> IF k = "p1" THEN IdleState ELSE UntypedState]),
             Num(0)))

LonelyNodeFile ==
    Json(Doc(Arr(<<NodeEntry("n1", "Lab", Num(0))>>), Null, Obj(EmptyMap), Num(0)))

InitialFiles == {Missing, Corrupt, WellFormedFile, DanglingFile, DuplicateFile, LonelyNodeFile}

(* The identifiers a caller may name: those the file holds, the empty
   string, and one that nothing has. *)
NodeIdsOnDisk ==
    IF disk.kind = "json" /\ disk.doc.nodes.t = "array"
    THEN {e.id : e \in {x \in Range(disk.doc.nodes.items) : x.t = "object"}}
    ELSE {}

PrinterIdsOnDisk ==
    IF disk.kind = "json" /\ disk.doc.printers.t = "array"
    THEN {e.id : e \in {x \in Range(disk.doc.printers.items) : x.t = "object"}}
    ELSE {}

RegisterInput(name, baseUrl, nodeId, nodeName) ==
    [name |-> name, baseUrl |-> baseUrl, nodeId |-> nodeId, nodeName |-> nodeName]

(* Arguments of registerPrinter: a blank name, a blank URL, and every way
   of naming the node. *)
RegisterInputs ==
    {RegisterInput(" ", "http://x ", Absent, Str(" Lab ")),
     RegisterInput(" Voron ", "", Absent, Str(" Lab ")),
     RegisterInput("", " ", Str("ghost"), Absent),
     RegisterInput(" Voron ", "http://x ", Str(""), Str(" Lab "))}
    \cup {RegisterInput(" Voron ", "http://x ", nodeId, nodeName) :
             nodeId \in {Absent, Str("ghost")} \cup {Str(i) : i \in NodeIdsOnDisk},
             nodeName \in {Absent, Str(" "), Str(" Lab ")}}

DefaultsInputs ==
    {[baseUrl |-> Absent, printerName |-> Absent],
     [baseUrl |-> Str(""), printerName |-> Str(" Voron ")],
     [baseUrl |-> Str("http://10.0.0.5"), printerName |-> Str(" ")],
     [baseUrl |-> Str("http://10.0.0.5"), printerName |-> Str(" Voron ")]}

StateInputs == {IdleState, OddState, BlankLabelState, Null}

(* Bodies of sync-states: not an object, one entry, or one entry beside an
   entry for an identifier nothing has. *)
StatesBodies ==
    {Null}
    \cup {Obj([k \in {id} |-> v]) : id \in PrinterIdsOnDisk \cup {"ghost"}, v \in StateInputs}
    \cup {Obj([k \in {id, "ghost"} |-> IF k = id THEN PrintingState ELSE IdleState]) :
             id \in PrinterIdsOnDisk}

HasNonObject(body) == body.t = "object" /\ \E k \in DOMAIN body.map : body.map[k].t # "object"

----------------------------------------------------------------------------
(* The state machine *)

NoCache == [set |-> FALSE]
Cached(snapshot, expiresAt) == [set |-> TRUE, snapshot |-> snapshot, expiresAt |-> expiresAt]

NoOp == [name |-> "none"]
NoFile == [kind |-> "none"]
(* No snapshot: told apart from every snapshot read, whose updatedAt is a
   time. *)
NoSnapshot == EmptySnapshot(0 - 1)
NoResult == [status |-> "none"]
NoBefore == [disk |-> NoFile, cache |-> NoCache]
Ok(snapshot) == [status |-> "ok", snapshot |-> snapshot]
Failed(message) == [status |-> "error", error |-> message]

(* No request of the registry endpoint is being served in the slot. *)
NoHttp == [open |-> FALSE]

(* No request is being served by an upstream proxy. *)
NoProxy == [phase |-> "idle"]

NoTelemetry == [phase |-> "none"]

NoPage == [created |-> FALSE]

NoCenter == [created |-> FALSE]
NoSession == [created |-> FALSE]

IsMutation(o) == o.name \in {"registerPrinter", "removePrinter", "removeNode", "upsertPrinterStates"}

StoreInit ==
    /\ disk \in InitialFiles
    /\ cache = NoCache
    /\ clock = 0
    /\ ids = 0
    /\ calls = 0
    /\ pc = [p \in Procs |-> "idle"]
    /\ op = [p \in Procs |-> NoOp]
    /\ raw = [p \in Procs |-> NoFile]
    /\ cur = [p \in Procs |-> NoSnapshot]
    /\ next = [p \in Procs |-> NoSnapshot]
    /\ result = [p \in Procs |-> NoResult]
    /\ before = [p \in Procs |-> NoBefore]
    /\ lastWriter = 0

Init ==
    /\ StoreInit
    /\ http = [p \in Procs |-> NoHttp]
    /\ proxy = NoProxy
    /\ telemetry = NoTelemetry
    /\ page = NoPage
    /\ center = NoCenter
    /\ session = NoSession

(* A call begins, in the first free slot (the slots are interchangeable),
   while the budget of calls is not spent.  It remembers the file and the
   cache it found. *)
Begin(p, o) ==
    /\ pc[p] = "idle"
    /\ \A q \in Procs : pc[q] = "idle" => p <= q
    /\ calls < MaxCalls
    /\ calls' = calls + 1
    /\ op' = [op EXCEPT ![p] = o]
    /\ before' = [before EXCEPT ![p] = [disk |-> disk, cache |-> cache]]
    /\ UNCHANGED <<disk, cache, clock, ids, raw, cur, next, lastWriter>>

Finish(p, r) ==
    /\ pc' = [pc EXCEPT ![p] = "returned"]
    /\ result' = [result EXCEPT ![p] = r]

Await(p, where) ==
    /\ pc' = [pc EXCEPT ![p] = where]
    /\ result' = [result EXCEPT ![p] = NoResult]

(* A cache that is still taken at the very instant it expires. *)
cacheFreshAtExpiry == cache.set /\ cache.expiresAt >= clock

cacheFresh == cache.set /\ cache.expiresAt > clock

(* getSnapshot up to its first await. *)
getSnapshot(p, defaults) ==
    /\ Begin(p, [name |-> "getSnapshot", defaults |-> defaults])
    /\ IF cacheFresh
       THEN Finish(p, Ok(cache.snapshot))
       ELSE Await(p, "reading")

CallGetSnapshot(p) == \E defaults \in DefaultsInputs : getSnapshot(p, defaults)

(* registerPrinter up to its first await. *)
(* The checks of registerPrinter without the one of the name. *)
registerPrinterCheckUrlOnly(name, baseUrl) ==
    IF baseUrl = "" THEN Thrown("La URL base es obligatoria.")
    ELSE [threw |-> FALSE]

registerPrinterCheck(name, baseUrl) ==
    IF name = "" THEN Thrown("El nombre de la impresora es obligatorio.")
    ELSE IF baseUrl = "" THEN Thrown("La URL base es obligatoria.")
    ELSE [threw |-> FALSE]

registerPrinter(p, input) ==
    LET check == registerPrinterCheck(Trim(input.name), Trim(input.baseUrl))
    IN  /\ Begin(p, [name |-> "registerPrinter", input |-> input])
        /\ IF check.threw
           THEN Finish(p, Failed(check.error))
           ELSE Await(p, "reading")

CallRegisterPrinter(p) == \E input \in RegisterInputs : registerPrinter(p, input)

removePrinterCheck(printerId) ==
    IF printerId = "" THEN Thrown("Se requiere el identificador de la impresora.")
    ELSE [threw |-> FALSE]

removePrinter(p, printerId) ==
    LET check == removePrinterCheck(printerId)
    IN  /\ Begin(p, [name |-> "removePrinter", printerId |-> printerId])
        /\ IF check.threw
           THEN Finish(p, Failed(check.error))
           ELSE Await(p, "reading")

CallRemovePrinter(p) ==
    \E printerId \in PrinterIdsOnDisk \cup {"", "ghost"} : removePrinter(p, printerId)

removeNodeCheck(nodeId) ==
    IF nodeId = "" THEN Thrown("Se requiere el identificador del nodo.")
    ELSE [threw |-> FALSE]

removeNode(p, nodeId) ==
    LET check == removeNodeCheck(nodeId)
    IN  /\ Begin(p, [name |-> "removeNode", nodeId |-> nodeId])
        /\ IF check.threw
           THEN Finish(p, Failed(check.error))
           ELSE Await(p, "reading")

CallRemoveNode(p) ==
    \E nodeId \in NodeIdsOnDisk \cup {"", "ghost"} : removeNode(p, nodeId)

(* upsertPrinterStates, with the entries the endpoint's parseStates made of
   the request body, or with the body's entries as they are. *)
upsertPrinterStates(p, entries) ==
    /\ Begin(p, [name |-> "upsertPrinterStates", entries |-> entries])
    /\ Await(p, "reading")

CallUpsertPrinterStates(p) ==
    \E body \in StatesBodies, parsed \in BOOLEAN :
        /\ parsed \/ HasNonObject(body)
        /\ upsertPrinterStates(p, IF parsed THEN parseStates(body) ELSE body.map)

(* fs.readFile completes. *)
ReadFile(p) ==
    /\ pc[p] = "reading"
    /\ raw' = [raw EXCEPT ![p] = disk]
    /\ pc' = [pc EXCEPT ![p] = "afterRead"]
    /\ UNCHANGED <<disk, cache, clock, ids, calls, op, cur, next, result, before, lastWriter>>

(* The mutator of the operation in slot p, applied to `current`. *)
Mutate(o, current, k, nowTs) ==
    CASE o.name = "registerPrinter" ->
            registerPrinterMutator(current, o.input, Trim(o.input.name), Trim(o.input.baseUrl), k, nowTs)
      [] o.name = "removePrinter" -> removePrinterMutator(current, o.printerId)
      [] o.name = "removeNode" -> removeNodeMutator(current, o.nodeId)
      [] o.name = "upsertPrinterStates" -> upsertPrinterStatesMutator(current, o.entries)

IdsUsed(o, current) ==
    IF o.name = "registerPrinter" THEN registerIdsUsed(current, o.input) ELSE 0

(* updateSnapshot from the completion of its read to the start of its
   write, or to the mutator's throw. *)
AfterReadMutation(p) ==
    /\ pc[p] = "afterRead"
    /\ IsMutation(op[p])
    /\ LET current == readSnapshotFromDisk(raw[p], clock)
           mutated == Mutate(op[p], current, ids, clock)
       IN  /\ cur' = [cur EXCEPT ![p] = current]
           /\ raw' = [raw EXCEPT ![p] = NoFile]
           /\ IF mutated.threw
              THEN /\ Finish(p, Failed(mutated.error))
                   /\ UNCHANGED <<next, ids>>
              ELSE /\ ids + IdsUsed(op[p], current) <= MaxIds
                   /\ ids' = ids + IdsUsed(op[p], current)
                   /\ next' = [next EXCEPT ![p] = updateSnapshotNext(mutated.snapshot, clock)]
                   /\ pc' = [pc EXCEPT ![p] = "writing"]
                   /\ UNCHANGED result
    /\ UNCHANGED <<disk, cache, clock, calls, op, before, lastWriter>>

(* getSnapshot from the completion of its read: cache and return what was
   read, or start writing the seeded snapshot. *)
AfterReadGetSnapshot(p) ==
    /\ pc[p] = "afterRead"
    /\ op[p].name = "getSnapshot"
    /\ LET snapshot == readSnapshotFromDisk(raw[p], clock)
       IN  /\ cur' = [cur EXCEPT ![p] = snapshot]
           /\ raw' = [raw EXCEPT ![p] = NoFile]
           /\ IF seedNeeded(snapshot, op[p].defaults)
              THEN /\ ids + 2 <= MaxIds
                   /\ ids' = ids + 2
                   /\ next' = [next EXCEPT ![p] = seededSnapshot(snapshot, op[p].defaults, ids, clock)]
                   /\ pc' = [pc EXCEPT ![p] = "writing"]
                   /\ UNCHANGED <<cache, result>>
              ELSE /\ cache' = Cached(snapshot, clock + CACHE_TTL_MS)
                   /\ Finish(p, Ok(snapshot))
                   /\ UNCHANGED <<next, ids>>
    /\ UNCHANGED <<disk, clock, calls, op, before, lastWriter>>

(* fs.writeFile completes (after ensureDataDirectory): the file is what
   this call made of the snapshot it read, whatever was written meanwhile. *)
WriteFile(p) ==
    /\ pc[p] = "writing"
    /\ disk' = writeFile(disk, next[p])
    /\ lastWriter' = p
    /\ pc' = [pc EXCEPT ![p] = "afterWrite"]
    /\ UNCHANGED <<cache, clock, ids, calls, op, raw, cur, next, result, before>>

(* writeSnapshotToDisk after its write: the cache takes the written
   snapshot, and the operation returns it. *)
AfterWrite(p) ==
    /\ pc[p] = "afterWrite"
    /\ cache' = Cached(next[p], clock + CACHE_TTL_MS)
    /\ Finish(p, Ok(next[p]))
    /\ next' = [next EXCEPT ![p] = NoSnapshot]
    /\ UNCHANGED <<disk, clock, ids, calls, op, raw, cur, before, lastWriter>>

(* The caller has taken the outcome of the call in slot p: the slot is free
   again. *)
Release(p) ==
    /\ pc[p] = "returned"
    /\ pc' = [pc EXCEPT ![p] = "idle"]
    /\ op' = [op EXCEPT ![p] = NoOp]
    /\ cur' = [cur EXCEPT ![p] = NoSnapshot]
    /\ result' = [result EXCEPT ![p] = NoResult]
    /\ before' = [before EXCEPT ![p] = NoBefore]
    /\ UNCHANGED <<disk, cache, clock, ids, calls, raw, next, lastWriter>>

(* Time passes. *)
Tick ==
    /\ clock + TickMs <= MaxClock
    /\ clock' = clock + TickMs
    /\ UNCHANGED <<disk, cache, ids, calls, pc, op, raw, cur, next, result, before, lastWriter>>

(* No call is in flight: the caller awaits each call before the next. *)
Quiet == \A q \in Procs : pc[q] = "idle"

(* The store used by a caller that awaits every call. *)
Next ==
    \/ \E p \in Procs : Quiet /\ CallGetSnapshot(p) /\ UNCHANGED beyondStore
    \/ \E p \in Procs : Quiet /\ CallRegisterPrinter(p) /\ UNCHANGED beyondStore
    \/ \E p \in Procs : Quiet /\ CallRemovePrinter(p) /\ UNCHANGED beyondStore
    \/ \E p \in Procs : Quiet /\ CallRemoveNode(p) /\ UNCHANGED beyondStore
    \/ \E p \in Procs : Quiet /\ CallUpsertPrinterStates(p) /\ UNCHANGED beyondStore
    \/ \E p \in Procs : ReadFile(p) /\ UNCHANGED beyondStore
    \/ \E p \in Procs : AfterReadMutation(p) /\ UNCHANGED beyondStore
    \/ \E p \in Procs : AfterReadGetSnapshot(p) /\ UNCHANGED beyondStore
    \/ \E p \in Procs : WriteFile(p) /\ UNCHANGED beyondStore
    \/ \E p \in Procs : AfterWrite(p) /\ UNCHANGED beyondStore
    \/ \E p \in Procs : Release(p) /\ UNCHANGED beyondStore
    \/ Tick /\ UNCHANGED beyondStore

Spec == Init /\ [][Next]_vars

(* Two calls issued without awaiting each other: one per slot, their reads
   and writes interleaved in every order. *)
RaceNext ==
    \/ \E p \in Procs : CallGetSnapshot(p) /\ UNCHANGED beyondStore
    \/ \E p \in Procs : CallRegisterPrinter(p) /\ UNCHANGED beyondStore
    \/ \E p \in Procs : CallRemovePrinter(p) /\ UNCHANGED beyondStore
    \/ \E p \in Procs : CallRemoveNode(p) /\ UNCHANGED beyondStore
    \/ \E p \in Procs : CallUpsertPrinterStates(p) /\ UNCHANGED beyondStore
    \/ \E p \in Procs : ReadFile(p) /\ UNCHANGED beyondStore
    \/ \E p \in Procs : AfterReadMutation(p) /\ UNCHANGED beyondStore
    \/ \E p \in Procs : AfterReadGetSnapshot(p) /\ UNCHANGED beyondStore
    \/ \E p \in Procs : WriteFile(p) /\ UNCHANGED beyondStore
    \/ \E p \in Procs : AfterWrite(p) /\ UNCHANGED beyondStore

RaceSpec == Init /\ [][RaceNext]_vars

----------------------------------------------------------------------------
(* The registry endpoint (routes/api/printer-registry/+server.ts): GET
   serves getSnapshot, POST one action of the request body. *)

(* The body of a POST: text that request.json() cannot parse, or a JSON
   value.  A JSON object is given by the members the handler looks at;
   a member that is not there is Absent. *)
Unparseable == [t |-> "unparseable"]

Payload(action, name, baseUrl, nodeId, nodeName, printerId, states) ==
    [t |-> "object", action |-> action, name |-> name, baseUrl |-> baseUrl, nodeId |-> nodeId,
     nodeName |-> nodeName, printerId |-> printerId, states |-> states]

AddPrinterBody(name, baseUrl, nodeId, nodeName) ==
    Payload(Str("add-printer"), name, baseUrl, nodeId, nodeName, Absent, Absent)

RemovePrinterBody(printerId) ==
    Payload(Str("remove-printer"), Absent, Absent, Absent, Absent, printerId, Absent)

RemoveNodeBody(nodeId) ==
    Payload(Str("remove-node"), Absent, Absent, nodeId, Absent, Absent, Absent)

SyncStatesBody(states) ==
    Payload(Str("sync-states"), Absent, Absent, Absent, Absent, Absent, states)

OtherBody(action) == Payload(action, Absent, Absent, Absent, Absent, Absent, Str("p1"))

(* The bodies a client may send: broken ones, every action with members of
   the right type, and every action with a member missing or mistyped. *)
RegistryBodies ==
    {Unparseable, Null, Str("add-printer"),
     OtherBody(Absent), OtherBody(Num(1)), OtherBody(Str("")), OtherBody(Str("reboot"))}
    \cup {AddPrinterBody(Str(i.name), Str(i.baseUrl), i.nodeId, i.nodeName) : i \in RegisterInputs}
    \cup {AddPrinterBody(Num(7), Str("http://x "), Absent, Str(" Lab ")),
          AddPrinterBody(Str(" Voron "), Absent, Absent, Str(" Lab ")),
          AddPrinterBody(Str(" Voron "), Str("http://x "), Num(1), Num(2))}
    \cup {RemovePrinterBody(id) : id \in {Absent, Num(1), Str("ghost")} \cup {Str(i) : i \in PrinterIdsOnDisk}}
    \cup {RemoveNodeBody(id) : id \in {Absent, Num(1), Str("ghost")} \cup {Str(i) : i \in NodeIdsOnDisk}}
    \cup {SyncStatesBody(states) : states \in StatesBodies \cup {Absent}}

StringOr(value, fallback) == IF value.t = "string" THEN value.s ELSE fallback

OptionalString(value) == IF value.t = "string" THEN value ELSE Absent

Reject(message) == [to |-> "reject", error |-> message]

(* A route that sends every action it does not know to sync-states. *)
registryRouteFallsThrough(body) ==
    IF body.t = "unparseable"
    THEN Reject("Cuerpo invalido, se esperaba JSON.")
    ELSE IF body.t # "object" \/ body.action.t # "string"
    THEN Reject("Accion no especificada.")
    ELSE CASE body.action.s = "add-printer" ->
                 [to |-> "registerPrinter",
                  input |-> RegisterInput(StringOr(body.name, ""), StringOr(body.baseUrl, ""),
                                          OptionalString(body.nodeId), OptionalString(body.nodeName))]
           [] body.action.s = "remove-printer" ->
                 [to |-> "removePrinter", printerId |-> StringOr(body.printerId, "")]
           [] body.action.s = "remove-node" ->
                 [to |-> "removeNode", nodeId |-> StringOr(body.nodeId, "")]
           [] OTHER ->
                 [to |-> "upsertPrinterStates", entries |-> parseStates(body.states)]

(* POST up to its call of the store: the store function the body is routed
   to, with its arguments, or the rejection of the body. *)
registryRoute(body) ==
    IF body.t = "unparseable"
    THEN Reject("Cuerpo invalido, se esperaba JSON.")
    ELSE IF body.t # "object" \/ body.action.t # "string"
    THEN Reject("Accion no especificada.")
    ELSE CASE body.action.s = "add-printer" ->
                 [to |-> "registerPrinter",
                  input |-> RegisterInput(StringOr(body.name, ""), StringOr(body.baseUrl, ""),
                                          OptionalString(body.nodeId), OptionalString(body.nodeName))]
           [] body.action.s = "remove-printer" ->
                 [to |-> "removePrinter", printerId |-> StringOr(body.printerId, "")]
           [] body.action.s = "remove-node" ->
                 [to |-> "removeNode", nodeId |-> StringOr(body.nodeId, "")]
           [] body.action.s = "sync-states" ->
                 [to |-> "upsertPrinterStates", entries |-> parseStates(body.states)]
           [] OTHER -> Reject("Accion no soportada.")

(* The two envelopes of json(...). *)
Success(snapshot) == [status |-> 200, body |-> [ok |-> TRUE, snapshot |-> snapshot]]
Failure(message, status) == [status |-> status, body |-> [ok |-> FALSE, error |-> message]]

NoResponse == [status |-> 0]

Serving(method, body) == [open |-> TRUE, method |-> method, body |-> body, response |-> NoResponse]

(* No request is being served and no store call is in flight. *)
Idle == \A q \in Procs : pc[q] = "idle" /\ ~http[q].open

(* POST arrives: the body is rejected at once, or the store is called. *)
PostRegistry(p) ==
    \E body \in RegistryBodies :
        LET route == registryRoute(body)
        IN  /\ Idle
            /\ IF route.to = "reject"
               THEN /\ calls < MaxCalls
                    /\ calls' = calls + 1
                    /\ http' = [http EXCEPT ![p] =
                                   [Serving("POST", body) EXCEPT !.response = Failure(route.error, 400)]]
                    /\ UNCHANGED <<disk, cache, clock, ids, pc, op, raw, cur, next, result,
                                   before, lastWriter>>
               ELSE /\ http' = [http EXCEPT ![p] = Serving("POST", body)]
                    /\ CASE route.to = "registerPrinter" -> registerPrinter(p, route.input)
                         [] route.to = "removePrinter" -> removePrinter(p, route.printerId)
                         [] route.to = "removeNode" -> removeNode(p, route.nodeId)
                         [] route.to = "upsertPrinterStates" -> upsertPrinterStates(p, route.entries)

(* GET arrives: getSnapshot with the defaults of the query string. *)
GetRegistry(p) ==
    \E defaults \in DefaultsInputs :
        /\ Idle
        /\ http' = [http EXCEPT ![p] = Serving("GET", defaults)]
        /\ getSnapshot(p, defaults)

(* The store call of the request has ended: the snapshot it returned, or
   the message of the Error it threw, goes into the response. *)
Respond(p) ==
    /\ http[p].open
    /\ http[p].response = NoResponse
    /\ pc[p] = "returned"
    /\ http' = [http EXCEPT ![p].response =
                   IF result[p].status = "ok"
                   THEN Success(result[p].snapshot)
                   ELSE Failure(result[p].error, 400)]
    /\ UNCHANGED storeVars

(* The response has been sent. *)
Close(p) ==
    /\ http[p].open
    /\ http[p].response # NoResponse
    /\ http' = [http EXCEPT ![p] = NoHttp]
    /\ IF pc[p] = "returned" THEN Release(p) ELSE UNCHANGED storeVars

(* The store behind its endpoint, one request at a time. *)
RegistryNext ==
    \/ \E p \in Procs : PostRegistry(p) /\ UNCHANGED beyondRegistry
    \/ \E p \in Procs : GetRegistry(p) /\ UNCHANGED beyondRegistry
    \/ \E p \in Procs : ReadFile(p) /\ UNCHANGED beyondStore
    \/ \E p \in Procs : AfterReadMutation(p) /\ UNCHANGED beyondStore
    \/ \E p \in Procs : AfterReadGetSnapshot(p) /\ UNCHANGED beyondStore
    \/ \E p \in Procs : WriteFile(p) /\ UNCHANGED beyondStore
    \/ \E p \in Procs : AfterWrite(p) /\ UNCHANGED beyondStore
    \/ \E p \in Procs : Respond(p) /\ UNCHANGED beyondRegistry
    \/ \E p \in Procs : Close(p) /\ UNCHANGED beyondRegistry

RegistrySpec == Init /\ [][RegistryNext]_vars

----------------------------------------------------------------------------
(* The upstream proxies: printer-overview, printer-control, printer-console,
   printer-macros and printer-info.  Each validates its request, issues one
   fetch to Moonraker and turns whatever comes of it into a response. *)

ProxyKinds == {"overview", "control", "console", "macros", "info"}

DEFAULT_BASE_URL == "http://192.168.1.17"

(* The delay of the abort timer of printer-console and printer-info. *)
REQUEST_TIMEOUT_MS == 8000

(* The proxies whose handler arms an abort timer before its fetch. *)
TimedProxies == {"console", "info"}

(* new URL(given) on the strings the model uses: the protocol and the origin,
   or the TypeError of a string that is no URL. *)
parseUrl(given) ==
    CASE given = "http://10.0.0.5" ->
            [threw |-> FALSE, protocol |-> "http:", origin |-> "http://10.0.0.5"]
      [] given = "https://printer.local/ui" ->
            [threw |-> FALSE, protocol |-> "https:", origin |-> "https://printer.local"]
      [] given = "ftp://10.0.0.5" ->
            [threw |-> FALSE, protocol |-> "ftp:", origin |-> "ftp://10.0.0.5"]
      [] OTHER -> [threw |-> TRUE, error |-> "Invalid URL"]

UnsupportedProtocol(kind) ==
    IF kind \in {"overview", "control"} THEN "Protocolo no soportado" ELSE "Unsupported protocol"

(* The part of resolveBaseUrl the five copies share. *)
resolveGiven(kind, given) ==
    LET parsed == parseUrl(given)
    IN  IF parsed.threw
        THEN Thrown("Invalid baseUrl provided: " \o parsed.error)
        ELSE IF parsed.protocol \notin {"http:", "https:"}
        THEN Thrown("Invalid baseUrl provided: " \o UnsupportedProtocol(kind))
        ELSE [threw |-> FALSE, base |-> parsed.origin]

(* resolveBaseUrl of the GET proxies: the argument is searchParams.get('baseUrl'),
   null or a string. *)
resolveBaseUrlOfQuery(kind, given) ==
    IF given.t # "string" \/ given.s = ""
    THEN [threw |-> FALSE, base |-> DEFAULT_BASE_URL]
    ELSE resolveGiven(kind, given.s)

(* resolveBaseUrl of printer-control: the argument is the baseUrl member of the
   body, of any type. *)
resolveBaseUrlOfBody(given) ==
    IF given.t # "string" \/ Trim(given.s) = ""
    THEN [threw |-> FALSE, base |-> DEFAULT_BASE_URL]
    ELSE resolveGiven("control", given.s)

Bool(b) == [t |-> "boolean", v |-> b]

(* !value *)
Falsy(value) ==
    \/ value.t \in {"undefined", "null"}
    \/ value.t = "string" /\ value.s = ""
    \/ value.t = "number" /\ value.v = 0
    \/ value.t = "boolean" /\ ~value.v

NaN == [finite |-> FALSE, v |-> 0]
Finite(n) == [finite |-> TRUE, v |-> n]

(* Number(text) on the strings the model uses. *)
StringToNumber(text) ==
    CASE Trim(text) = "" -> Finite(0)
      [] Trim(text) = "60" -> Finite(60)
      [] OTHER -> NaN

(* typeof value === 'number' ? value : Number(value) *)
ToNumber(value) ==
    CASE value.t = "number" -> Finite(value.v)
      [] value.t = "string" -> StringToNumber(value.s)
      [] value.t = "null" -> Finite(0)
      [] value.t = "boolean" -> Finite(IF value.v THEN 1 ELSE 0)
      [] value.t = "array" -> IF value.items = <<>> THEN Finite(0) ELSE NaN
      [] OTHER -> NaN

STATIC_ACTIONS ==
    [pause |-> [path |-> "/printer/print/pause", script |-> Absent],
     home_xy |-> [path |-> "/printer/gcode/script", script |-> Str("G28 X Y")],
     home_xyz |-> [path |-> "/printer/gcode/script", script |-> Str("G28")],
     bed_mesh_calibrate |-> [path |-> "/printer/gcode/script", script |-> Str("BED_MESH_CALIBRATE")],
     screws_tilt_calculate |-> [path |-> "/printer/gcode/script", script |-> Str("SCREWS_TILT_CALCULATE")]]

(* The keys an object literal inherits from Object.prototype, among the
   strings the model uses. *)
ObjectPrototypeKeys == {"constructor", "toString"}

(* action in STATIC_ACTIONS: own keys and inherited ones. *)
InStaticActions(action) ==
    action.t = "string" /\ action.s \in (DOMAIN STATIC_ACTIONS) \cup ObjectPrototypeKeys

ActionError(message) == [isError |-> TRUE, error |-> message]
ActionConfig(path, script) == [isError |-> FALSE, path |-> path, script |-> script]

(* buildActionConfig.  An inherited key yields a member of Object.prototype,
   which has neither error nor path nor body: the target path is then the
   text of undefined. *)
buildActionConfig(action, value) ==
    IF action = Str("gcode_script")
    THEN IF value.t # "string" \/ Trim(value.s) = ""
         THEN ActionError("Comando GCode invalido")
         ELSE ActionConfig("/printer/gcode/script", Str(Trim(value.s)))
    ELSE IF action \in {Str("set_bed_temperature"), Str("set_hotend_temperature")}
    THEN LET numeric == ToNumber(value)
             heater == IF action = Str("set_bed_temperature") THEN "heater_bed" ELSE "extruder"
         IN  IF ~numeric.finite
             THEN ActionError("Valor de temperatura invalido")
             ELSE ActionConfig("/printer/gcode/script",
                      Str("SET_HEATER_TEMPERATURE HEATER=" \o heater \o " TARGET=" \o ToString(numeric.v)))
    ELSE IF ~InStaticActions(action)
    THEN ActionError("Accion no soportada")
    ELSE IF action.s \in DOMAIN STATIC_ACTIONS
    THEN ActionConfig(STATIC_ACTIONS[action.s].path, STATIC_ACTIONS[action.s].script)
    ELSE ActionConfig("undefined", Absent)

(* A request: the proxy it goes to, and what the handler reads of it. *)
QueryRequest(kind, baseUrl) == [kind |-> kind, body |-> Absent, baseUrl |-> baseUrl]
ControlRequest(body) == [kind |-> "control", body |-> body, baseUrl |-> Absent]

ControlBody(action, baseUrl, value) ==
    [t |-> "object", action |-> action, baseUrl |-> baseUrl, value |-> value]

QueryBaseUrls ==
    {Null, Str(""), Str(" "), Str("http://10.0.0.5"), Str("https://printer.local/ui"),
     Str("ftp://10.0.0.5"), Str("printer.local")}

BodyBaseUrls ==
    {Absent, Null, Num(42), Str(" "), Str("http://10.0.0.5"), Str("ftp://10.0.0.5"),
     Str("printer.local")}

ControlActions ==
    {Absent, Null, Str(""), Num(5), Str("pause"), Str("home_xy"), Str("home_xyz"),
     Str("bed_mesh_calibrate"), Str("screws_tilt_calculate"), Str("gcode_script"),
     Str("set_bed_temperature"), Str("set_hotend_temperature"), Str("reboot"), Str("toString")}

ControlValues ==
    {Absent, Null, Num(60), Str(" 60 "), Str(""), Str(" "), Str("abc"), Str(" G28 "),
     Bool(TRUE), Arr(<<>>)}

ProxyRequests ==
    {QueryRequest(kind, baseUrl) : kind \in ProxyKinds \ {"control"}, baseUrl \in QueryBaseUrls}
    \cup {ControlRequest(Unparseable), ControlRequest(Null)}
    \cup {ControlRequest(ControlBody(action, baseUrl, value)) :
             action \in ControlActions, baseUrl \in BodyBaseUrls, value \in ControlValues}

(* The handler up to its fetch: the failure it answers with, or the target
   of the fetch. *)
Refuse(message) == [refused |-> TRUE, error |-> message]
FetchFrom(base, path) == [refused |-> FALSE, base |-> base, path |-> path]

UpstreamPath(kind) ==
    CASE kind = "overview" -> "/printer/objects/query"
      [] kind = "console" -> "/server/gcode_store"
      [] kind = "macros" -> "/printer/objects/list"
      [] kind = "info" -> "/printer/info"

validateQuery(request) ==
    LET resolved == resolveBaseUrlOfQuery(request.kind, request.baseUrl)
    IN  IF resolved.threw
        THEN Refuse(resolved.error)
        ELSE FetchFrom(resolved.base, UpstreamPath(request.kind))

validateControl(request) ==
    LET payload == request.body
        action == IF payload.t = "object" THEN payload.action ELSE Absent
        baseUrl == IF payload.t = "object" THEN payload.baseUrl ELSE Absent
        value == IF payload.t = "object" THEN payload.value ELSE Absent
        resolved == resolveBaseUrlOfBody(baseUrl)
        config == buildActionConfig(action, value)
    IN  IF payload.t = "unparseable"
        THEN Refuse("No se pudo parsear la solicitud")
        ELSE IF Falsy(action)
        THEN Refuse("Accion no soportada")
        ELSE IF resolved.threw
        THEN Refuse(resolved.error)
        ELSE IF config.isError
        THEN Refuse(config.error)
        ELSE FetchFrom(resolved.base, config.path)

validate(request) ==
    IF request.kind = "control" THEN validateControl(request) ELSE validateQuery(request)

(* The responses. *)
ProxySuccess(kind, base) == [status |-> 200, body |-> [ok |-> TRUE, from |-> kind, baseUrl |-> base]]

ProxyFailure(message, status) == [status |-> status, body |-> [ok |-> FALSE, error |-> message]]

UpstreamStatusMessage(kind, status) ==
    IF kind = "control"
    THEN "Moonraker respondio con estado " \o ToString(status)
    ELSE "Moonraker responded with status " \o ToString(status)

FetchFailedMessage(kind, message) ==
    IF kind = "control"
    THEN "Fallo al contactar Moonraker: " \o message
    ELSE "Moonraker request failed: " \o message

(* The status of the catch block: printer-console and printer-info tell an
   aborted fetch from the other failures. *)
CatchStatus(kind, message) ==
    IF kind \in TimedProxies /\ message = "This operation was aborted" THEN 504 ELSE 502

Fetching(request, target, timer) ==
    [phase |-> "fetching", request |-> request, fetched |-> TRUE, target |-> target,
     timer |-> timer, response |-> NoResponse]

ProxyAnswered(request, fetched, response) ==
    [phase |-> "answered", request |-> request, fetched |-> fetched, target |-> Absent,
     timer |-> 0, response |-> response]

(* A request arrives: it is refused with status 400, or the fetch is
   issued, with the abort timer armed where the handler has one. *)
ProxyReceive ==
    \E request \in ProxyRequests :
        LET checked == validate(request)
        IN  /\ proxy.phase = "idle"
            /\ proxy' = IF checked.refused
                        THEN ProxyAnswered(request, FALSE, ProxyFailure(checked.error, 400))
                        ELSE Fetching(request, Str(checked.base \o checked.path),
                                      IF request.kind \in TimedProxies THEN REQUEST_TIMEOUT_MS ELSE 0)

(* Moonraker answers: a status other than 2xx is relayed; a 2xx answer is
   read, and a body that is no JSON fails the proxies that need JSON. *)
UpstreamAnswers ==
    \E status \in {200, 404, 500}, isJson \in BOOLEAN :
        LET kind == proxy.request.kind
        IN  /\ proxy.phase = "fetching"
            /\ proxy' = ProxyAnswered(proxy.request, TRUE,
                          IF status # 200
                          THEN ProxyFailure(UpstreamStatusMessage(kind, status), status)
                          ELSE IF isJson \/ kind \in {"control", "macros"}
                          THEN ProxySuccess(kind, proxy.target)
                          ELSE ProxyFailure(FetchFailedMessage(kind, "Unexpected token"),
                                            CatchStatus(kind, "Unexpected token")))

(* The connection fails: fetch rejects. *)
UpstreamFails ==
    LET kind == proxy.request.kind
    IN  /\ proxy.phase = "fetching"
        /\ proxy' = ProxyAnswered(proxy.request, TRUE,
                             ProxyFailure(FetchFailedMessage(kind, "fetch failed"),
                                          CatchStatus(kind, "fetch failed")))

(* The abort timer fires before Moonraker has answered: the fetch rejects
   with the abort. *)
TimerFires ==
    LET kind == proxy.request.kind
    IN  /\ proxy.phase = "fetching"
        /\ proxy.timer > 0
        /\ proxy' = ProxyAnswered(proxy.request, TRUE,
                             ProxyFailure(FetchFailedMessage(kind, "This operation was aborted"),
                                          CatchStatus(kind, "This operation was aborted")))

(* The response has been sent. *)
ProxyDone ==
    /\ proxy.phase = "answered"
    /\ proxy' = NoProxy

ProxyInit ==
    /\ disk = Missing
    /\ StoreInit
    /\ http = [p \in Procs |-> NoHttp]
    /\ proxy = NoProxy
    /\ telemetry = NoTelemetry
    /\ page = NoPage
    /\ center = NoCenter
    /\ session = NoSession

ProxyNext ==
    \/ ProxyReceive /\ UNCHANGED beyondProxy
    \/ UpstreamAnswers /\ UNCHANGED beyondProxy
    \/ UpstreamFails /\ UNCHANGED beyondProxy
    \/ TimerFires /\ UNCHANGED beyondProxy
    \/ ProxyDone /\ UNCHANGED beyondProxy

ProxySpec == ProxyInit /\ [][ProxyNext]_vars

----------------------------------------------------------------------------
(* One reading of Moonraker: printer-overview turns the queried objects into
   the print summary, and the registry page and the status widget each derive
   what they display from that summary.  The numbers of a reading are
   carried in hundredths: Num(42) is 0.42 and Num(5700) is 57. *)

Scale == 100

(* What JSON.parse makes of a number beyond the range of a double. *)
Infinity == [t |-> "number", infinite |-> TRUE]

MathMax(a, b) == IF a >= b THEN a ELSE b
MathMin(a, b) == IF a <= b THEN a ELSE b

(* Number(text), in hundredths, on the strings the model uses. *)
NumberOfText(text) ==
    CASE text = "0.42" -> Finite(42)
      [] text = "57" -> Finite(5700)
      [] text = "142" -> Finite(14200)
      [] OTHER -> NaN

buildNumber(value) ==
    CASE value.t \in {"null", "undefined"} -> Null
      [] value.t = "number" -> IF value = Infinity THEN Null ELSE value
      [] value.t = "string" ->
            IF Trim(value.s) = "" THEN Null
            ELSE LET parsed == NumberOfText(Trim(value.s))
                 IN  IF parsed.finite THEN Num(parsed.v) ELSE Null
      [] OTHER -> Null

(* buildProgress that takes 1 for one percent. *)
buildProgressBelowOne(value) ==
    LET num == buildNumber(value)
    IN  IF num = Null THEN Null
        ELSE LET normalized == IF num.v < Scale THEN num.v * 100 ELSE num.v
             IN  Num(MathMax(0, MathMin(100 * Scale, normalized)))

buildProgress(value) ==
    LET num == buildNumber(value)
    IN  IF num = Null THEN Null
        ELSE LET normalized == IF num.v <= Scale THEN num.v * 100 ELSE num.v
             IN  Num(MathMax(0, MathMin(100 * Scale, normalized)))

(* left ?? right *)
Coalesce(left, right) == IF left = Null THEN right ELSE left

(* The print summary of the response of printer-overview. *)
printSummary(displayStatus, printStats) ==
    [state |-> Coalesce(IF displayStatus.state.t = "string" THEN displayStatus.state ELSE Null,
                        Coalesce(IF printStats.state.t = "string" THEN printStats.state ELSE Null,
                                 Str("desconocido"))).s,
     progress |-> Coalesce(buildProgress(displayStatus.progress),
                           buildProgress(printStats.progress))]

UpperCaseLetters == "ABCDEFGHIJKLMNOPQRSTUVWXYZ"
LowerCaseLetters == "abcdefghijklmnopqrstuvwxyz"

CharAt(text, i) == SubSeq(text, i, i)

LowerChar(c) ==
    IF \E i \in 1..Len(UpperCaseLetters) : CharAt(UpperCaseLetters, i) = c
    THEN CharAt(LowerCaseLetters, CHOOSE i \in 1..Len(UpperCaseLetters) : CharAt(UpperCaseLetters, i) = c)
    ELSE c

(* String.prototype.toLowerCase *)
RECURSIVE toLowerCase(_)
toLowerCase(text) ==
    IF text = "" THEN ""
    ELSE LowerChar(CharAt(text, 1)) \o toLowerCase(SubSeq(text, 2, Len(text)))

(* String.prototype.includes *)
includes(text, needle) ==
    \E i \in 1..(Len(text) - Len(needle) + 1) : SubSeq(text, i, i + Len(needle) - 1) = needle

StateDisplay(label, variant) == [label |-> label, variant |-> variant]

(* resolveStateDisplay that looks for a pause before it looks for a print. *)
resolveStateDisplayPauseFirst(given) ==
    IF given = Null \/ given.s = "" THEN StateDisplay("Desconocido", "unknown")
    ELSE LET normalized == toLowerCase(given.s)
         IN  IF includes(normalized, "pause") THEN StateDisplay("Pausado", "paused")
             ELSE IF includes(normalized, "print") THEN StateDisplay("Imprimiendo", "printing")
             ELSE IF \/ includes(normalized, "complete")
                     \/ includes(normalized, "done")
                     \/ includes(normalized, "finish")
             THEN StateDisplay("Completado", "complete")
             ELSE IF \/ includes(normalized, "standby")
                     \/ includes(normalized, "idle")
                     \/ includes(normalized, "ready")
             THEN StateDisplay("Standby", "idle")
             ELSE IF \/ includes(normalized, "error")
                     \/ includes(normalized, "fault")
                     \/ includes(normalized, "halt")
             THEN StateDisplay("Error", "error")
             ELSE StateDisplay(given.s, "unknown")

(* resolveStateDisplay of the registry page; the argument is null or a
   string. *)
resolveStateDisplay(given) ==
    IF given = Null \/ given.s = "" THEN StateDisplay("Desconocido", "unknown")
    ELSE LET normalized == toLowerCase(given.s)
         IN  IF includes(normalized, "print") THEN StateDisplay("Imprimiendo", "printing")
             ELSE IF \/ includes(normalized, "complete")
                     \/ includes(normalized, "done")
                     \/ includes(normalized, "finish")
             THEN StateDisplay("Completado", "complete")
             ELSE IF includes(normalized, "pause") THEN StateDisplay("Pausado", "paused")
             ELSE IF \/ includes(normalized, "standby")
                     \/ includes(normalized, "idle")
                     \/ includes(normalized, "ready")
             THEN StateDisplay("Standby", "idle")
             ELSE IF \/ includes(normalized, "error")
                     \/ includes(normalized, "fault")
                     \/ includes(normalized, "halt")
             THEN StateDisplay("Error", "error")
             ELSE StateDisplay(given.s, "unknown")

(* resolveStateDisplay of the status widget. *)
resolveStateDisplayOfWidget(given) ==
    IF given = Null \/ given.s = "" THEN StateDisplay("Desconocido", "unknown")
    ELSE LET normalized == toLowerCase(given.s)
         IN  IF includes(normalized, "print") THEN StateDisplay("Imprimiendo", "printing")
             ELSE IF \/ includes(normalized, "complete")
                     \/ includes(normalized, "done")
                     \/ includes(normalized, "finish")
             THEN StateDisplay("Completado", "complete")
             ELSE IF includes(normalized, "pause") THEN StateDisplay("Pausado", "paused")
             ELSE IF \/ includes(normalized, "standby")
                     \/ includes(normalized, "idle")
                     \/ includes(normalized, "ready")
             THEN StateDisplay("Standby", "idle")
             ELSE IF \/ includes(normalized, "error")
                     \/ includes(normalized, "fault")
                     \/ includes(normalized, "halt")
             THEN StateDisplay("Error", "error")
             ELSE StateDisplay(given.s, "unknown")

(* resolveProgress of the registry page; the argument is null or a finite
   number. *)
resolveProgress(value) ==
    IF value = Null THEN Null
    ELSE LET progress == IF value.v <= Scale THEN value.v * 100 ELSE value.v
         IN  Num(MathMax(0, MathMin(100 * Scale, progress)))

RawProgress ==
    {Absent, Null, Num(0 - 500), Num(0 - 50), Num(0), Num(1), Num(42), Num(100), Num(150),
     Num(5700), Num(10000), Num(14200), Infinity, Str(" 0.42 "), Str("57"), Str("142"),
     Str("abc"), Str(" "), Bool(TRUE)}

FallbackProgress == {Absent, Num(42), Num(14200)}

RawStates ==
    {Absent, Null, Num(3), Str(""), Str("Printing layer 12"), Str("Ready"),
     Str("Halted by error"), Str("Print paused"), Str("PAUSED: not ready"),
     Str("Finished with error"), Str("Done"), Str("complete"), Str("IDLE"),
     Str("standby"), Str("Heater fault"), Str("cancelled")}

FallbackStates == {Absent, Str("printing")}

NoPrint == [state |-> "", progress |-> Null, built |-> FALSE]
NoDisplay == [shown |-> FALSE, of |-> "none"]

TelemetryInit ==
    /\ disk = Missing
    /\ StoreInit
    /\ http = [p \in Procs |-> NoHttp]
    /\ proxy = NoProxy
    /\ \E state \in RawStates, progress \in RawProgress,
          fallbackState \in FallbackStates, fallbackProgress \in FallbackProgress :
           telemetry = [phase |-> "queried",
                        displayStatus |-> [state |-> state, progress |-> progress],
                        printStats |-> [state |-> fallbackState, progress |-> fallbackProgress],
                        print |-> NoPrint,
                        page |-> NoDisplay,
                        widget |-> NoDisplay]
    /\ page = NoPage
    /\ center = NoCenter
    /\ session = NoSession

(* printer-overview builds the print summary from what Moonraker answered. *)
BuildOverview ==
    /\ telemetry.phase = "queried"
    /\ telemetry' = [telemetry EXCEPT
           !.phase = "summarized",
           !.print = [built |-> TRUE] @@ printSummary(telemetry.displayStatus, telemetry.printStats)]

(* The registry page reads the summary: refreshPrinterState. *)
RefreshPage ==
    /\ telemetry.phase = "summarized"
    /\ ~telemetry.page.shown
    /\ telemetry' = [telemetry EXCEPT
           !.page = [shown |-> TRUE,
                     of |-> telemetry.phase,
                     display |-> resolveStateDisplay(Str(telemetry.print.state)),
                     progress |-> resolveProgress(telemetry.print.progress)]]

(* The status widget derives its display from the summary it holds, which
   is null until the first one has arrived: its reactive stateDisplay. *)
RefreshWidget ==
    /\ telemetry.widget.of # telemetry.phase
    /\ telemetry' = [telemetry EXCEPT
           !.widget = [shown |-> TRUE,
                       of |-> telemetry.phase,
                       display |-> resolveStateDisplayOfWidget(
                                       IF telemetry.print.built
                                       THEN Str(telemetry.print.state)
                                       ELSE Null)]]

TelemetryNext ==
    \/ BuildOverview /\ UNCHANGED beyondTelemetry
    \/ RefreshPage /\ UNCHANGED beyondTelemetry
    \/ RefreshWidget /\ UNCHANGED beyondTelemetry

TelemetrySpec == TelemetryInit /\ [][TelemetryNext]_vars

----------------------------------------------------------------------------
(* The registry page in the browser.  It holds the registry it was given,
   one state entry per printer, the polls in flight, the 45-second polling
   interval and the 800 ms debounce timer of the state upload.  A printer is
   its id. *)

MaxPagePrinters == 2

PagePrinters == {createId(k) : k \in 1..MaxPagePrinters}

REFRESH_INTERVAL == 45000

STATE_SYNC_DELAY == 800

RegistryRequests == {"refresh", "mutation"}

(* The component as its script leaves it: the registry of the server load,
   with an entry for every printer. *)
CreatedPage(initial) ==
    [created |-> TRUE,
     hydrated |-> FALSE,
     destroyed |-> FALSE,
     printers |-> initial,
     printerStates |-> initial,
     fetchingStates |-> {},
     stateInterval |-> 0,
     stateSyncTimer |-> 0,
     syncTimers |-> 0,
     awaiting |-> {}]

(* The reactive blocks run while the component is mounted. *)
Reacts(s) == s.hydrated /\ ~s.destroyed

(* refreshPrinterState for every printer of targets: the entry is ensured, and a
   poll is started unless one is in flight. *)
refreshPrinterStates(s, targets) ==
    [s EXCEPT !.printerStates = @ \cup targets, !.fetchingStates = @ \cup targets]

refreshAllPrinterStates(s) == refreshPrinterStates(s, s.printers)

startStatePolling(s) ==
    IF s.stateInterval # 0 THEN s
    ELSE refreshAllPrinterStates([s EXCEPT !.stateInterval = REFRESH_INTERVAL])

stopStatePolling(s) == [s EXCEPT !.stateInterval = 0]

(* scheduleStateSync that sets a timeout whether one is pending or not. *)
scheduleStateSyncAlways(s) ==
    [s EXCEPT !.stateSyncTimer = STATE_SYNC_DELAY, !.syncTimers = @ + 1]

(* syncTimers counts the timeouts of scheduleStateSync that are pending in
   the browser; stateSyncTimer is the handle the component keeps. *)
scheduleStateSync(s) ==
    IF s.stateSyncTimer # 0 THEN s
    ELSE [s EXCEPT !.stateSyncTimer = STATE_SYNC_DELAY, !.syncTimers = @ + 1]

(* clearTimeout(stateSyncTimer) of onDestroy. *)
clearStateSyncTimer(s) ==
    IF s.stateSyncTimer = 0 THEN s
    ELSE [s EXCEPT !.stateSyncTimer = 0, !.syncTimers = @ - 1]

(* applySnapshot: the entries are dropped, those of the snapshot restored
   for its printers, and an entry ensured for every printer. *)
applySnapshot(s, printers) ==
    [s EXCEPT !.printers = printers, !.printerStates = printers]

(* The block $: if (hydrated): entries of printers that are gone are
   dropped, a printer without entry gets one and a poll, and the interval
   runs while there is a printer. *)
reactive(s) ==
    IF ~Reacts(s) THEN s
    ELSE LET filtered == [s EXCEPT !.printerStates = @ \cap s.printers]
             polled == refreshPrinterStates(filtered, filtered.printers \ filtered.printerStates)
         IN  IF polled.printers # {} THEN startStatePolling(polled) ELSE stopStatePolling(polled)

PageMount ==
    /\ page.created /\ ~page.hydrated
    /\ page' = reactive(startStatePolling(refreshAllPrinterStates(
                   [page EXCEPT !.hydrated = TRUE, !.awaiting = @ \cup {"refresh"}])))

(* The user adds or removes a printer or a node: mutateRegistry sends the
   request. *)
MutateRegistry ==
    /\ page.created /\ Reacts(page)
    /\ "mutation" \notin page.awaiting
    /\ page' = [page EXCEPT !.awaiting = @ \cup {"mutation"}]

(* The registry answers with its snapshot, which is applied. *)
RegistryAnswers ==
    \E request \in RegistryRequests, printers \in SUBSET PagePrinters :
        /\ page.created
        /\ request \in page.awaiting
        /\ page' = reactive(applySnapshot([page EXCEPT !.awaiting = @ \ {request}], printers))

(* The registry answers with a failure, or not at all. *)
RegistryRefuses ==
    \E request \in RegistryRequests :
        /\ page.created
        /\ request \in page.awaiting
        /\ page' = [page EXCEPT !.awaiting = @ \ {request}]

(* The polling interval ticks. *)
IntervalTick ==
    /\ page.created
    /\ page.stateInterval # 0
    /\ page' = reactive(refreshAllPrinterStates(page))

(* The user asks for a refresh of every state. *)
handleRefreshAllStates ==
    /\ page.created /\ Reacts(page)
    /\ page' = reactive(refreshAllPrinterStates(page))

(* A poll ends, well or badly: the entry is set, the poll is no longer in
   flight, and the upload of the states is scheduled. *)
PollCompletes ==
    \E id \in PagePrinters :
        /\ page.created
        /\ id \in page.fetchingStates
        /\ page' = reactive(scheduleStateSync(
                       [page EXCEPT !.printerStates = @ \cup {id},
                                    !.fetchingStates = @ \ {id}]))

(* The debounce timer fires: the states are uploaded. *)
StateSyncTimerFires ==
    /\ page.created
    /\ page.stateSyncTimer # 0
    /\ page' = [page EXCEPT !.stateSyncTimer = 0, !.syncTimers = @ - 1]

(* onDestroy of the page. *)
PageDestroy ==
    /\ page.created /\ Reacts(page)
    /\ page' = [clearStateSyncTimer(stopStatePolling(page)) EXCEPT !.destroyed = TRUE]

(* The command center: the console socket, its reconnect timer, the
   interval that reloads the console history, and the timer that takes the
   feedback of a command away. *)

CONSOLE_FEEDBACK_MS == 6000

CreatedCenter ==
    [created |-> TRUE,
     hydrated |-> FALSE,
     destroyed |-> FALSE,
     consoleSocket |-> "none",
     closing |-> FALSE,
     consoleShouldReconnect |-> FALSE,
     suppressConsoleReconnectOnce |-> FALSE,
     consoleReconnectTimer |-> FALSE,
     consoleHistoryInterval |-> FALSE,
     feedbackTimer |-> 0,
     commands |-> FALSE]

scheduleConsoleReconnect(s) ==
    IF ~s.consoleShouldReconnect \/ s.consoleReconnectTimer THEN s
    ELSE [s EXCEPT !.consoleReconnectTimer = TRUE]

(* connectConsoleStream: the socket is created, or its constructor throws. *)
connectConsoleStream(s, thrown) ==
    LET ready == [s EXCEPT !.consoleShouldReconnect = TRUE, !.consoleReconnectTimer = FALSE]
    IN  IF thrown THEN scheduleConsoleReconnect(ready)
        ELSE [ready EXCEPT !.consoleSocket = "connecting"]

(* The close handler of a socket. *)
onSocketClose(s) ==
    IF ~s.consoleShouldReconnect THEN s
    ELSE IF s.suppressConsoleReconnectOnce THEN [s EXCEPT !.suppressConsoleReconnectOnce = FALSE]
    ELSE scheduleConsoleReconnect(s)

(* consoleSocket.close(): the socket is let go, its close event follows. *)
closeConsoleSocket(s) ==
    IF s.consoleSocket = "none" THEN s
    ELSE [s EXCEPT !.consoleSocket = "none", !.closing = TRUE]

(* onDestroy of the command center, and the function its onMount returns. *)
teardown(s) ==
    closeConsoleSocket([s EXCEPT !.consoleShouldReconnect = FALSE,
                                 !.consoleReconnectTimer = FALSE,
                                 !.consoleHistoryInterval = FALSE,
                                 !.destroyed = TRUE])

CenterMount ==
    \E thrown \in BOOLEAN :
        /\ center.created /\ ~center.hydrated
        /\ center' = connectConsoleStream(
                         [center EXCEPT !.hydrated = TRUE, !.consoleHistoryInterval = TRUE],
                         thrown)

SocketOpens ==
    /\ center.created
    /\ center.consoleSocket = "connecting"
    /\ center' = [center EXCEPT !.consoleSocket = "open"]

(* The connection is lost: the socket in use reports its close. *)
SocketCloses ==
    /\ center.created
    /\ center.consoleSocket # "none"
    /\ center' = onSocketClose([center EXCEPT !.consoleSocket = "none"])

(* A socket the component has closed reports its close. *)
ClosedSocketReports ==
    /\ center.created
    /\ center.closing
    /\ center' = onSocketClose([center EXCEPT !.closing = FALSE])

ReconnectTimerFires ==
    \E thrown \in BOOLEAN :
        /\ center.created
        /\ center.consoleReconnectTimer
        /\ center' = LET fired == [center EXCEPT !.consoleReconnectTimer = FALSE]
                     IN  IF ~fired.consoleShouldReconnect THEN fired
                         ELSE connectConsoleStream(fired, thrown)

(* The page hands the component another baseUrl: the history interval is
   started anew and the stream reconnected. *)
BaseUrlChanges ==
    \E thrown \in BOOLEAN :
        /\ center.created /\ Reacts(center)
        /\ center' = connectConsoleStream(
                         [closeConsoleSocket([center EXCEPT !.suppressConsoleReconnectOnce = TRUE,
                                                            !.consoleHistoryInterval = TRUE])
                            EXCEPT !.consoleReconnectTimer = FALSE],
                         thrown)

(* dispatchScript sends a command: the feedback shown is taken away. *)
SendCommand ==
    /\ center.created /\ Reacts(center)
    /\ ~center.commands
    /\ center' = [center EXCEPT !.commands = TRUE, !.feedbackTimer = 0]

(* The command is answered, well or badly: flashFeedback shows the outcome
   for six seconds. *)
CommandCompletes ==
    /\ center.created
    /\ center.commands
    /\ center' = [center EXCEPT !.commands = FALSE, !.feedbackTimer = CONSOLE_FEEDBACK_MS]

FeedbackTimerFires ==
    /\ center.created
    /\ center.feedbackTimer # 0
    /\ center' = [center EXCEPT !.feedbackTimer = 0]

CenterDestroy ==
    /\ center.created /\ Reacts(center)
    /\ center' = teardown(center)

ClientInit ==
    /\ disk = Missing
    /\ StoreInit
    /\ http = [p \in Procs |-> NoHttp]
    /\ proxy = NoProxy
    /\ telemetry = NoTelemetry
    /\ \E initial \in SUBSET PagePrinters : page = CreatedPage(initial)
    /\ center = CreatedCenter
    /\ session = NoSession

ClientNext ==
    \/ PageMount /\ UNCHANGED beyondPage
    \/ MutateRegistry /\ UNCHANGED beyondPage
    \/ RegistryAnswers /\ UNCHANGED beyondPage
    \/ RegistryRefuses /\ UNCHANGED beyondPage
    \/ IntervalTick /\ UNCHANGED beyondPage
    \/ handleRefreshAllStates /\ UNCHANGED beyondPage
    \/ PollCompletes /\ UNCHANGED beyondPage
    \/ StateSyncTimerFires /\ UNCHANGED beyondPage
    \/ PageDestroy /\ UNCHANGED beyondPage
    \/ CenterMount /\ UNCHANGED beyondCenter
    \/ SocketOpens /\ UNCHANGED beyondCenter
    \/ SocketCloses /\ UNCHANGED beyondCenter
    \/ ClosedSocketReports /\ UNCHANGED beyondCenter
    \/ ReconnectTimerFires /\ UNCHANGED beyondCenter
    \/ BaseUrlChanges /\ UNCHANGED beyondCenter
    \/ SendCommand /\ UNCHANGED beyondCenter
    \/ CommandCompletes /\ UNCHANGED beyondCenter
    \/ FeedbackTimerFires /\ UNCHANGED beyondCenter
    \/ CenterDestroy /\ UNCHANGED beyondCenter

ClientSpec == ClientInit /\ [][ClientNext]_vars

----------------------------------------------------------------------------
(* Properties *)

HasReturned(p) == pc[p] = "returned"
ReturnedOk(p) == pc[p] = "returned" /\ result[p].status = "ok"
ReturnedError(p) == pc[p] = "returned" /\ result[p].status = "error"

Distinct(seq) == \A i, j \in DOMAIN seq : seq[i].id = seq[j].id => i = j

(* C1: every snapshot an operation returns is referentially sound: each
   printer's nodeId is the id of a node of the same snapshot, and each key of
   the state map is the id of a printer of the same snapshot, whatever the
   file held at the start. *)
SanitizationInvariant ==
    \A p \in Procs :
        ReturnedOk(p) =>
            LET s == result[p].snapshot
            IN  /\ \A printer \in Range(s.printers) : printer.nodeId \in NodeIdsOf(s)
                /\ StateKeysOf(s) \subseteq PrinterIdsOf(s)

(* A read of the file with the dangling printer and the orphaned state
   entries has returned, with the sound printer left. *)
SanitizationWitness ==
    \E p \in Procs :
        /\ ReturnedOk(p)
        /\ before[p].disk = DanglingFile
        /\ PrinterIdsOf(result[p].snapshot) = {"p1"}

(* C2: in every snapshot an operation returns, the nodes have pairwise
   distinct ids and the printers have pairwise distinct ids, whatever the
   file held before. *)
UniqueIds ==
    \A p \in Procs :
        ReturnedOk(p) =>
            /\ Distinct(result[p].snapshot.nodes)
            /\ Distinct(result[p].snapshot.printers)

(* The state map of s is the state map of c, cut down to the keys in keys. *)
StatesAre(s, c, keys) ==
    /\ StateKeysOf(s) = keys
    /\ \A k \in keys : s.states.map[k] = c.states.map[k]

(* C4: removeNode(n), for a node n of the snapshot it read, returns that
   snapshot without n, without the printers of n and without the state
   entries whose printer is gone; the other nodes, the printers of the other
   nodes and the state entries of those printers are as they were. *)
RemoveNodeCascades ==
    \A p \in Procs :
        (HasReturned(p) /\ op[p].name = "removeNode" /\ op[p].nodeId \in NodeIdsOf(cur[p])) =>
            /\ result[p].status = "ok"
            /\ LET n == op[p].nodeId
                   c == cur[p]
                   s == result[p].snapshot
               IN  /\ n \notin NodeIdsOf(s)
                   /\ \A printer \in Range(s.printers) : printer.nodeId # n
                   /\ s.nodes = SelectSeq(c.nodes, LAMBDA node : node.id # n)
                   /\ s.printers = SelectSeq(c.printers, LAMBDA printer : printer.nodeId # n)
                   /\ StatesAre(s, c, StateKeysOf(c) \cap PrinterIdsOf(s))

(* A printer was registered under a new node, got a state entry, and the
   node was then removed, while another node kept its printer and its state
   entry. *)
RemoveNodeWitness ==
    \E p \in Procs :
        /\ ReturnedOk(p)
        /\ op[p].name = "removeNode"
        /\ op[p].nodeId \in {createId(k) : k \in 1 .. ids}
        /\ \E printer \in Range(cur[p].printers) :
              /\ printer.nodeId = op[p].nodeId
              /\ printer.id \in StateKeysOf(cur[p])
        /\ StateKeysOf(result[p].snapshot) # {}

(* C5: removePrinter(q), for a printer q of the snapshot it read, returns
   that snapshot without q and without the state entry of q: the nodes are
   as they were, and so are the other printers and their state entries. *)
RemovePrinterFrame ==
    \A p \in Procs :
        (HasReturned(p) /\ op[p].name = "removePrinter"
            /\ op[p].printerId \in PrinterIdsOf(cur[p])) =>
            /\ result[p].status = "ok"
            /\ LET q == op[p].printerId
                   c == cur[p]
                   s == result[p].snapshot
               IN  /\ s.nodes = c.nodes
                   /\ s.printers = SelectSeq(c.printers, LAMBDA printer : printer.id # q)
                   /\ StatesAre(s, c, StateKeysOf(c) \ {q})

(* The last printer of a node was removed, with its state entry, while
   another printer kept its own. *)
RemovePrinterWitness ==
    \E p \in Procs :
        /\ ReturnedOk(p)
        /\ op[p].name = "removePrinter"
        /\ op[p].printerId \in StateKeysOf(cur[p])
        /\ \E node \in Range(result[p].snapshot.nodes) :
              \A printer \in Range(result[p].snapshot.printers) : printer.nodeId # node.id
        /\ StateKeysOf(result[p].snapshot) # {}

(* The call of slot p left the file and the cache as it found them. *)
NothingWritten(p) == disk = before[p].disk /\ cache = before[p].cache

(* C6: removePrinter with an id no printer has, or an empty id, and
   removeNode with an id no node has, or an empty id, end in an error and
   leave the file and the cache as they were. *)
RemoveUnknownFails ==
    \A p \in Procs :
        /\ (HasReturned(p) /\ op[p].name = "removePrinter"
               /\ op[p].printerId \notin PrinterIdsOf(cur[p])) =>
               (result[p].status = "error" /\ NothingWritten(p))
        /\ (HasReturned(p) /\ op[p].name = "removeNode"
               /\ op[p].nodeId \notin NodeIdsOf(cur[p])) =>
               (result[p].status = "error" /\ NothingWritten(p))

(* removePrinter failed for an id nothing has, after the file had been
   read, in a registry that holds printers and a fresh cache. *)
RemoveUnknownWitness ==
    \E p \in Procs :
        /\ ReturnedError(p)
        /\ op[p].name = "removePrinter"
        /\ op[p].printerId = "ghost"
        /\ cur[p].printers # <<>>
        /\ cache.set

NodeResolves(c, input) == input.nodeId.t = "string" /\ input.nodeId.s \in NodeIdsOf(c)

BlankOrAbsent(value) == value.t # "string" \/ Trim(value.s) = ""

(* C7: registerPrinter ends in an error, and leaves the file and the cache
   as they were, whenever the name or the base URL is blank once trimmed,
   and whenever nodeId names no node of the snapshot read while nodeName is
   absent or blank once trimmed. *)
RegisterValidation ==
    \A p \in Procs :
        (/\ HasReturned(p)
         /\ op[p].name = "registerPrinter"
         /\ \/ Trim(op[p].input.name) = ""
            \/ Trim(op[p].input.baseUrl) = ""
            \/ ~NodeResolves(cur[p], op[p].input) /\ BlankOrAbsent(op[p].input.nodeName))
        => (result[p].status = "error" /\ NothingWritten(p))

(* registerPrinter failed on an unknown nodeId with a blank nodeName, after
   a read that found nodes, while the cache was set. *)
RegisterValidationWitness ==
    \E p \in Procs :
        /\ ReturnedError(p)
        /\ op[p].name = "registerPrinter"
        /\ op[p].input.nodeId = Str("ghost")
        /\ op[p].input.nodeName = Str(" ")
        /\ cur[p].nodes # <<>>
        /\ cache.set

Last(seq) == seq[Len(seq)]
Front(seq) == SubSeq(seq, 1, Len(seq) - 1)

(* C8: a registerPrinter that succeeds returns the snapshot it read plus
   one printer of a new id at the end; when nodeId names a node that is
   there, the nodes are as they were and the printer is on that node, also
   when a nodeName came along; otherwise one node of a new id, named by the
   trimmed nodeName, is added at the end and the printer is on it.  The
   state entries are as they were. *)
RegisterAddsOne ==
    \A p \in Procs :
        (ReturnedOk(p) /\ op[p].name = "registerPrinter") =>
            LET c == cur[p]
                s == result[p].snapshot
                input == op[p].input
            IN  /\ s.printers # <<>>
                /\ Front(s.printers) = c.printers
                /\ Last(s.printers).id \notin PrinterIdsOf(c) \cup NodeIdsOf(s) \cup StateKeysOf(c)
                /\ Last(s.printers).name = Trim(input.name)
                /\ Last(s.printers).baseUrl = Trim(input.baseUrl)
                /\ IF NodeResolves(c, input)
                   THEN /\ s.nodes = c.nodes
                        /\ Last(s.printers).nodeId = input.nodeId.s
                   ELSE /\ s.nodes # <<>>
                        /\ Front(s.nodes) = c.nodes
                        /\ Last(s.nodes).id \notin NodeIdsOf(c)
                        /\ Last(s.nodes).name = Trim(input.nodeName.s)
                        /\ Last(s.printers).nodeId = Last(s.nodes).id
                /\ StatesAre(s, c, StateKeysOf(c))

(* A printer was registered on an existing node although a node name came
   along, in a registry that held state entries. *)
RegisterWitness ==
    \E p \in Procs :
        /\ ReturnedOk(p)
        /\ op[p].name = "registerPrinter"
        /\ NodeResolves(cur[p], op[p].input)
        /\ op[p].input.nodeName = Str(" Lab ")
        /\ StateKeysOf(cur[p]) # {}

(* C9: upsertPrinterStates does not fail, whatever its entries; the nodes
   and the printers are as read; an entry under the id of a printer that is
   there, with a value that passes isValidState, is the stored entry
   afterwards; every other stored entry is as it was; an entry under an id
   no printer has leaves no entry under that id. *)
UpsertMerges ==
    \A p \in Procs :
        (HasReturned(p) /\ op[p].name = "upsertPrinterStates") =>
            /\ result[p].status = "ok"
            /\ LET c == cur[p]
                   s == result[p].snapshot
                   entries == op[p].entries
                   merged == {k \in DOMAIN entries :
                                 k \in PrinterIdsOf(c) /\ isValidState(entries[k])}
               IN  /\ s.nodes = c.nodes
                   /\ s.printers = c.printers
                   /\ StateKeysOf(s) = StateKeysOf(c) \cup merged
                   /\ \A k \in StateKeysOf(s) :
                         s.states.map[k] = IF k \in merged THEN entries[k] ELSE c.states.map[k]
                   /\ \A k \in (DOMAIN entries) \ PrinterIdsOf(c) : k \notin StateKeysOf(s)

(* One call carried an entry for a printer that is there and one for an id
   nothing has; the first was stored, the second was not, and the entry of
   a printer the call did not name stayed. *)
UpsertWitness ==
    \E p \in Procs :
        /\ ReturnedOk(p)
        /\ op[p].name = "upsertPrinterStates"
        /\ "ghost" \in DOMAIN op[p].entries
        /\ \E k \in DOMAIN op[p].entries :
              k \in PrinterIdsOf(cur[p]) /\ k \notin StateKeysOf(cur[p])
        /\ StateKeysOf(cur[p]) # {}
        /\ "ghost" \notin StateKeysOf(result[p].snapshot)

StateVariants == {"printing", "idle", "paused", "complete", "error", "unknown"}

WellTyped(state) ==
    /\ state.variant.t = "string" /\ state.variant.s \in StateVariants
    /\ \/ state.progress.t = "null"
       \/ state.progress.t = "number" /\ state.progress.v >= 0 /\ state.progress.v <= 100

(* C10: every state entry of a returned snapshot has a variant among
   printing, idle, paused, complete, error, unknown, and a progress that is
   null or a number from 0 to 100. *)
StoredStatesWellTyped ==
    \A p \in Procs :
        ReturnedOk(p) =>
            \A k \in StateKeysOf(result[p].snapshot) :
                WellTyped(result[p].snapshot.states.map[k])

(* Slots p and q ran mutations that read the same snapshot and both
   returned a snapshot; q's write came last. *)
Raced(p, q) ==
    /\ p # q
    /\ ReturnedOk(p) /\ IsMutation(op[p])
    /\ ReturnedOk(q) /\ IsMutation(op[q])
    /\ cur[p] = cur[q]
    /\ lastWriter = q

(* C3: when two mutations that read the same snapshot have both returned
   successfully, the file is the snapshot of the one that wrote last, made
   from the snapshot both read: a printer the other one registered is not in
   the file. *)
LostUpdate ==
    \A p, q \in Procs :
        Raced(p, q) =>
            /\ disk = Json(AsDoc(result[q].snapshot))
            /\ op[p].name = "registerPrinter" =>
                  Last(result[p].snapshot.printers).id \notin PrinterIdsOnDisk

(* Two registerPrinter calls read the same snapshot, both returned
   successfully, and the file holds the printer of one of them only. *)
LostUpdateWitness ==
    \E p, q \in Procs :
        /\ Raced(p, q)
        /\ op[p].name = "registerPrinter"
        /\ op[q].name = "registerPrinter"
        /\ Last(result[p].snapshot.printers).id \notin PrinterIdsOnDisk
        /\ Last(result[q].snapshot.printers).id \in PrinterIdsOnDisk

----------------------------------------------------------------------------
(* Reads *)

(* The call in slot p read the file (it was not answered from the cache). *)
HasRead(p) == cur[p] # NoSnapshot

IsGetSnapshot(p) == op[p].name = "getSnapshot"

IsEmptySnapshot(s) == s.nodes = <<>> /\ s.printers = <<>> /\ ~s.states.defined

(* s is one node named "Nodo principal" holding one printer. *)
IsSeeded(s) ==
    /\ Len(s.nodes) = 1
    /\ s.nodes[1].name = "Nodo principal"
    /\ Len(s.printers) = 1
    /\ s.printers[1].nodeId = s.nodes[1].id

(* C11: a getSnapshot that reads a registry without nodes (file missing,
   unreadable, or holding no valid node) and is given a non-empty
   defaults.baseUrl returns, and leaves in the file, one node named "Nodo
   principal" with one printer on it, whose baseUrl is defaults.baseUrl and
   whose name is the trimmed defaults.printerName, or "Impresora principal"
   when that is absent or blank; without defaults.baseUrl it returns the
   empty snapshot and the file is as it was. *)
SeedsEmptyRegistry ==
    \A p \in Procs :
        (HasReturned(p) /\ IsGetSnapshot(p) /\ HasRead(p) /\ cur[p].nodes = <<>>) =>
            /\ result[p].status = "ok"
            /\ LET s == result[p].snapshot
                   defaults == op[p].defaults
                   given == defaults.printerName
               IN  IF defaults.baseUrl.t = "string" /\ defaults.baseUrl.s # ""
                   THEN /\ IsSeeded(s)
                        /\ s.printers[1].baseUrl = defaults.baseUrl.s
                        /\ s.printers[1].name =
                              IF given.t = "string" /\ Trim(given.s) # ""
                              THEN Trim(given.s)
                              ELSE "Impresora principal"
                        /\ disk = Json(AsDoc(s))
                   ELSE /\ IsEmptySnapshot(s)
                        /\ disk = before[p].disk

(* A registry emptied by removeNode was read after the cache had expired,
   with a base URL and a blank printer name, and was seeded under the fixed
   printer name. *)
SeedWitness ==
    \E p \in Procs :
        /\ ReturnedOk(p) /\ IsGetSnapshot(p) /\ HasRead(p)
        /\ before[p].disk.kind = "json"
        /\ before[p].cache.set
        /\ cur[p].nodes = <<>>
        /\ op[p].defaults.printerName = Str(" ")
        /\ IsSeeded(result[p].snapshot)
        /\ result[p].snapshot.printers[1].name = "Impresora principal"

(* The snapshot the file is the document of, when writeSnapshotToDisk wrote
   the file. *)
OnDisk(file) ==
    Snapshot(file.doc.nodes.items, file.doc.printers.items,
             IF file.doc.states.t = "object" THEN Defined(file.doc.states.map) ELSE Undefined,
             file.doc.updatedAt.v)

(* The call in slot p began with the cache holding the snapshot last
   written to the file. *)
BeganOnWritten(p) ==
    /\ before[p].cache.set
    /\ before[p].disk = Json(AsDoc(before[p].cache.snapshot))

(* A getSnapshot begins in slot p. *)
GetSnapshotBegins(p) == pc[p] = "idle" /\ pc'[p] # "idle" /\ op'[p].name = "getSnapshot"

(* A getSnapshot that begins before the cache expires returns the cached
   snapshot in the same step, without a read; one that begins at or after
   the expiry goes to read the file. *)
CacheDecides ==
    \A p \in Procs :
        GetSnapshotBegins(p) =>
            IF cache.set /\ clock < cache.expiresAt
            THEN pc'[p] = "returned" /\ result'[p] = Ok(cache.snapshot) /\ raw' = raw /\ cur' = cur
            ELSE pc'[p] = "reading"

(* C12 as stated: a mutation that returned a snapshot left it in the file
   and in the cache; a getSnapshot that begins before the cache expires
   returns the cached snapshot without reading the file; and a getSnapshot
   that begins while cache and file hold the snapshot last written returns
   that snapshot, whether the cache has expired or not. *)
ReadBackEqualsWritten ==
    /\ [](\A p \in Procs :
            /\ (ReturnedOk(p) /\ IsMutation(op[p])) =>
                  (disk = Json(AsDoc(result[p].snapshot))
                      /\ cache.set /\ cache.snapshot = result[p].snapshot)
            /\ (HasReturned(p) /\ IsGetSnapshot(p) /\ BeganOnWritten(p)) =>
                  result[p] = Ok(before[p].cache.snapshot))
    /\ [][CacheDecides]_vars

(* C12 amended: as above, except that a getSnapshot which reads, after the
   expiry, a written snapshot without nodes or without printers, and is
   given a non-empty defaults.baseUrl, returns the seeded snapshot instead
   (one node "Nodo principal" with one printer), which it writes. *)
ReadBackUnlessSeeded ==
    /\ [](\A p \in Procs :
            /\ (ReturnedOk(p) /\ IsMutation(op[p])) =>
                  (disk = Json(AsDoc(result[p].snapshot))
                      /\ cache.set /\ cache.snapshot = result[p].snapshot)
            /\ (HasReturned(p) /\ IsGetSnapshot(p) /\ BeganOnWritten(p)) =>
                  LET written == before[p].cache.snapshot
                      defaults == op[p].defaults
                      seeds == /\ HasRead(p)
                               /\ written.nodes = <<>> \/ written.printers = <<>>
                               /\ defaults.baseUrl.t = "string" /\ defaults.baseUrl.s # ""
                  IN  /\ result[p].status = "ok"
                      /\ IF seeds
                         THEN IsSeeded(result[p].snapshot) /\ disk = Json(AsDoc(result[p].snapshot))
                         ELSE result[p].snapshot = written /\ disk = before[p].disk)
    /\ [][CacheDecides]_vars

(* removePrinter wrote a snapshot; a getSnapshot that began after the cache
   had expired read it back from the file, with a printer and a state entry
   in it. *)
ReadBackWitness ==
    \E p \in Procs :
        /\ ReturnedOk(p) /\ IsGetSnapshot(p) /\ HasRead(p)
        /\ BeganOnWritten(p)
        /\ before[p].cache.expiresAt <= clock
        /\ lastWriter # 0
        /\ disk = before[p].disk
        /\ result[p].snapshot.printers # <<>>
        /\ StateKeysOf(result[p].snapshot) # {}
        /\ Len(result[p].snapshot.nodes) > Len(result[p].snapshot.printers)

FileItems(member) == IF member.t = "array" THEN Range(member.items) ELSE {}

FileStates(doc) == IF doc.states.t = "object" THEN doc.states.map ELSE EmptyMap

(* C13: getSnapshot always returns a snapshot.  When the file is missing or
   not parseable, the snapshot is the empty one, or the seeded one when
   defaults.baseUrl is given; when the file is a JSON document and nothing
   was written, the snapshot holds exactly the valid entries of the file:
   the invalid nodes, printers and state entries are left out and the valid
   ones are all there. *)
ReadNeverFails ==
    \A p \in Procs :
        (HasReturned(p) /\ IsGetSnapshot(p)) =>
            /\ result[p].status = "ok"
            /\ LET s == result[p].snapshot
                   file == before[p].disk
               IN  /\ file.kind \in {"missing", "corrupt"} =>
                          \/ IsEmptySnapshot(s) /\ disk = file
                          \/ IsSeeded(s) /\ Truthy(op[p].defaults.baseUrl)
                   /\ (file.kind \in {"missing", "corrupt"} /\ ~Truthy(op[p].defaults.baseUrl)) =>
                          IsEmptySnapshot(s)
                   /\ (file.kind = "json" /\ disk = file) =>
                          /\ \A n \in FileItems(file.doc.nodes) :
                                n \in Range(s.nodes) <=> isValidNode(n)
                          /\ Range(s.nodes) \subseteq FileItems(file.doc.nodes)
                          /\ \A e \in FileItems(file.doc.printers) :
                                e \in Range(s.printers) <=> isValidPrinter(e, NodeIdsOf(s))
                          /\ Range(s.printers) \subseteq FileItems(file.doc.printers)
                          /\ \A k \in DOMAIN FileStates(file.doc) :
                                k \in StateKeysOf(s) <=>
                                    (k \in PrinterIdsOf(s) /\ isValidState(FileStates(file.doc)[k]))
                          /\ \A k \in StateKeysOf(s) :
                                /\ k \in DOMAIN FileStates(file.doc)
                                /\ s.states.map[k] = FileStates(file.doc)[k]

(* The file that holds a nameless node, a printer on it, a printer without
   a creation time and state entries of no printer was read, and the one
   sound node and the one sound printer were returned. *)
ReadDegradesWitness ==
    \E p \in Procs :
        /\ ReturnedOk(p) /\ IsGetSnapshot(p) /\ HasRead(p)
        /\ before[p].disk = DanglingFile
        /\ disk = DanglingFile
        /\ NodeIdsOf(result[p].snapshot) = {"n1"}
        /\ PrinterIdsOf(result[p].snapshot) = {"p1"}
        /\ StateKeysOf(result[p].snapshot) = {}

----------------------------------------------------------------------------
(* The registry endpoint *)

Answered(p) == http[p].open /\ http[p].response # NoResponse

RegistryActions == {"add-printer", "remove-printer", "remove-node", "sync-states"}

NamesAction(body) ==
    body.t = "object" /\ body.action.t = "string" /\ body.action.s \in RegistryActions

(* C14: every response to a POST is {ok: true, snapshot} or {ok: false,
   error} and nothing else.  A body that cannot be parsed, is no object, or
   names no action or an action the endpoint does not know, is answered
   {ok: false, error} without any call of the store.  A body that names an
   action is answered after one mutation of the store: {ok: true, snapshot}
   with the snapshot the mutation returned, which is the one in the file,
   when it succeeded; {ok: false, error} with the message of the store's
   error, file and cache as they were, when it failed. *)
RegistryEnvelope ==
    \A p \in Procs :
        (Answered(p) /\ http[p].method = "POST") =>
            LET body == http[p].body
                sent == http[p].response.body
            IN  /\ \/ DOMAIN sent = {"ok", "snapshot"} /\ sent.ok
                   \/ DOMAIN sent = {"ok", "error"} /\ ~sent.ok
                /\ ~NamesAction(body) =>
                      /\ ~sent.ok
                      /\ pc[p] = "idle"
                      /\ op[p] = NoOp
                /\ NamesAction(body) =>
                      /\ pc[p] = "returned"
                      /\ IsMutation(op[p])
                      /\ sent.ok <=> result[p].status = "ok"
                      /\ sent.ok =>
                            /\ sent.snapshot = result[p].snapshot
                            /\ disk = Json(AsDoc(sent.snapshot))
                      /\ ~sent.ok =>
                            /\ sent.error = result[p].error
                            /\ NothingWritten(p)

(* A remove-printer whose printerId is not a string reached the store as
   the empty id and was answered with the store's error, after an add-printer
   had been answered with its snapshot. *)
RegistryEnvelopeWitness ==
    \E p \in Procs :
        /\ Answered(p)
        /\ http[p].body = RemovePrinterBody(Num(1))
        /\ ~http[p].response.body.ok
        /\ http[p].response.status = 400
        /\ ids > 0
        /\ cache.set

----------------------------------------------------------------------------
(* The requests the proxies are to refuse. *)

(* The baseUrl of the request, wherever the proxy reads it. *)
GivenBaseUrl(request) ==
    IF request.kind # "control" THEN request.baseUrl
    ELSE IF request.body.t = "object" THEN request.body.baseUrl
    ELSE Absent

(* A baseUrl was given and is no well-formed http or https URL. *)
MalformedBaseUrl(request) ==
    LET given == GivenBaseUrl(request)
    IN  /\ given.t = "string"
        /\ Trim(given.s) # ""
        /\ \/ parseUrl(given.s).threw
           \/ parseUrl(given.s).protocol \notin {"http:", "https:"}

SupportedActions ==
    {Str(name) : name \in DOMAIN STATIC_ACTIONS}
    \cup {Str("gcode_script"), Str("set_bed_temperature"), Str("set_hotend_temperature")}

GivenAction(request) == IF request.body.t = "object" THEN request.body.action ELSE Absent
GivenValue(request) == IF request.body.t = "object" THEN request.body.value ELSE Absent

UnsupportedAction(request) ==
    request.kind = "control" /\ GivenAction(request) \notin SupportedActions

(* A number, or a text that reads as one. *)
DenotesFiniteNumber(value) ==
    \/ value.t = "number"
    \/ value.t = "string" /\ Trim(value.s) = "60"

NonFiniteTemperature(request) ==
    /\ request.kind = "control"
    /\ GivenAction(request) \in {Str("set_bed_temperature"), Str("set_hotend_temperature")}
    /\ ~DenotesFiniteNumber(GivenValue(request))

BlankScript(request) ==
    /\ request.kind = "control"
    /\ GivenAction(request) = Str("gcode_script")
    /\ LET value == GivenValue(request)
       IN  value.t # "string" \/ Trim(value.s) = ""

Invalid(request) ==
    \/ MalformedBaseUrl(request)
    \/ UnsupportedAction(request)
    \/ NonFiniteTemperature(request)
    \/ BlankScript(request)

(* C15: in every proxy, a request with a baseUrl that is no well-formed
   http/https URL, with a missing or unsupported control action, with a
   set-temperature value that is no finite number, or with a blank script,
   is never forwarded: no fetch is issued for it, and its response is a
   failure envelope. *)
ValidationBeforeFetch ==
    proxy.phase # "idle" /\ Invalid(proxy.request)
        => /\ proxy.phase = "answered"
           /\ ~proxy.fetched
           /\ ~proxy.response.body.ok

(* C16: every proxy arms the fixed request timeout for its fetch, so that a
   fetch that is pending can always be ended by the timer, and the response
   to a fetch the timer ended has a status of its own, not the status of a
   failed connection. *)
EveryFetchHasTimeout ==
    /\ proxy.phase = "fetching" => proxy.timer = REQUEST_TIMEOUT_MS
    /\ proxy.phase = "fetching" => ENABLED TimerFires
    /\ proxy.phase = "answered"
         /\ proxy.response.body = [ok |-> FALSE,
                error |-> FetchFailedMessage(proxy.request.kind, "This operation was aborted")]
         => proxy.response.status = 504

----------------------------------------------------------------------------
(* The finite number a raw value carries, in hundredths, if it carries one. *)
ReadsAs(input) ==
    CASE input.t = "number" /\ input # Infinity -> Finite(input.v)
      [] input = Str(" 0.42 ") -> Finite(42)
      [] input = Str("57") -> Finite(5700)
      [] input = Str("142") -> Finite(14200)
      [] OTHER -> NaN

(* A value at most 1 times 100, a greater one kept, then clamped to
   [0, 100]. *)
Normalized(v) ==
    LET percent == IF v <= Scale THEN v * 100 ELSE v
    IN  IF percent < 0 THEN 0 ELSE IF percent > 100 * Scale THEN 100 * Scale ELSE percent

(* The raw progress the summary is built from: display_status.progress, or
   print_stats.progress when the former yields nothing. *)
EffectiveProgress ==
    IF ReadsAs(telemetry.displayStatus.progress).finite
    THEN ReadsAs(telemetry.displayStatus.progress)
    ELSE ReadsAs(telemetry.printStats.progress)

(* C17: the progress of the summary is null when the raw value is missing
   or not finite, and otherwise lies in [0, 100]: the raw value times 100
   when it is at most 1, the raw value itself when it is greater, clamped;
   0.42 gives 42, 57 gives 57, 142 gives 100 and -5 gives 0. *)
ProgressNormalized ==
    telemetry.phase = "summarized" =>
        LET progress == telemetry.print.progress
            given == telemetry.displayStatus.progress
        IN  /\ ~EffectiveProgress.finite => progress = Null
            /\ EffectiveProgress.finite =>
                 /\ progress = Num(Normalized(EffectiveProgress.v))
                 /\ progress.v >= 0
                 /\ progress.v <= 100 * Scale
            /\ given = Num(42) => progress = Num(42 * Scale)
            /\ given = Num(57 * Scale) => progress = Num(57 * Scale)
            /\ given = Num(142 * Scale) => progress = Num(100 * Scale)
            /\ given = Num(0 - 5 * Scale) => progress = Num(0)
            /\ given = Num(Scale) => progress = Num(100 * Scale)

ProgressNormalizedWitness ==
    /\ telemetry.phase = "summarized"
    /\ telemetry.displayStatus.progress = Num(Scale)
    /\ telemetry.print.progress = Num(100 * Scale)

(* The rules of the derivation, in their order. *)
VariantRules ==
    <<[words |-> {"print"}, variant |-> "printing"],
      [words |-> {"complete", "done", "finish"}, variant |-> "complete"],
      [words |-> {"pause"}, variant |-> "paused"],
      [words |-> {"standby", "idle", "ready"}, variant |-> "idle"],
      [words |-> {"error", "fault", "halt"}, variant |-> "error"]>>

Matches(text, rule) == \E word \in rule.words : includes(toLowerCase(text), word)

(* What the rules make of a status string. *)
DerivedVariant(text) ==
    IF \E i \in DOMAIN VariantRules : Matches(text, VariantRules[i])
    THEN VariantRules[CHOOSE i \in DOMAIN VariantRules :
                         /\ Matches(text, VariantRules[i])
                         /\ \A j \in 1..(i - 1) : ~Matches(text, VariantRules[j])].variant
    ELSE "unknown"

(* C18: the display derived from a status string has the variant of the
   first rule, in the order print, complete/done/finish, pause,
   standby/idle/ready, error/fault/halt, one of whose words the string
   contains, whatever its case; a string no rule matches is shown as it is
   with variant unknown, and an empty or missing one with variant unknown
   and the fixed label; the registry page and the status widget derive the
   same display from the same string. *)
StateVariantDerivation ==
    /\ telemetry.page.shown =>
         LET given == telemetry.print.state
             display == telemetry.page.display
         IN  /\ given = "" => display = StateDisplay("Desconocido", "unknown")
             /\ given # "" => display.variant = DerivedVariant(given)
             /\ given # "" /\ DerivedVariant(given) = "unknown" => display.label = given
             /\ given = "Printing layer 12" => display.variant = "printing"
             /\ given = "Ready" => display.variant = "idle"
             /\ given = "Halted by error" => display.variant = "error"
    /\ telemetry.widget.shown /\ telemetry.widget.of = "queried" =>
         telemetry.widget.display = StateDisplay("Desconocido", "unknown")
    /\ telemetry.page.shown /\ telemetry.widget.shown /\ telemetry.widget.of = "summarized" =>
         telemetry.widget.display = telemetry.page.display

StateVariantWitness ==
    /\ telemetry.page.shown
    /\ telemetry.widget.shown
    /\ telemetry.widget.of = "summarized"
    /\ telemetry.print.state = "Print paused"
    /\ telemetry.page.display.variant = "printing"
    /\ telemetry.widget.display.variant = "printing"

----------------------------------------------------------------------------
(* A snapshot is applied to the mounted page and changes its registry. *)
RegistryChanges ==
    /\ Reacts(page)
    /\ page'.printers # page.printers

(* C19: when an applied snapshot changes the registry of the mounted page,
   the step leaves no state entry of a printer that is no longer registered
   and leaves a poll in flight for every printer of the new registry. *)
RegistryChangePollsAll ==
    [][RegistryChanges =>
          /\ page'.printerStates \subseteq page'.printers
          /\ page'.printers \subseteq page'.fetchingStates]_vars

(* C20: once onDestroy of the registry page has run, neither its polling
   interval nor its debounce timer is pending, and once onDestroy of the
   command center has run, none of its timers is pending and it holds no
   socket; this stays so whatever completes afterwards. *)
TeardownClearsTimers ==
    /\ page.destroyed =>
         /\ page.stateInterval = 0
         /\ page.stateSyncTimer = 0
    /\ center.destroyed =>
         /\ ~center.consoleReconnectTimer
         /\ ~center.consoleHistoryInterval
         /\ center.feedbackTimer = 0
         /\ center.consoleSocket = "none"

----------------------------------------------------------------------------
(* The identifiers of the nodes of a snapshot. *)
NodeIdSet(snapshot) == {node.id : node \in Range(snapshot.nodes)}

(* C25: every node of the registry a getSnapshot read from the file is in
   the snapshot the call returns and in the file afterwards, with or
   without defaults, also when the node has no printer. *)
ReadsKeepNodes ==
    \A p \in Procs :
        (ReturnedOk(p) /\ IsGetSnapshot(p) /\ HasRead(p)) =>
            /\ NodeIdSet(cur[p]) \subseteq NodeIdSet(result[p].snapshot)
            /\ NodeIdSet(cur[p]) \subseteq NodeIdsOnDisk

(* The identifiers of the printers of a snapshot. *)
PrinterIdSet(snapshot) == {printer.id : printer \in Range(snapshot.printers)}

(* The printers the removal in slot p took out of the snapshot it read. *)
RemovedBy(p) == PrinterIdSet(cur[p]) \ PrinterIdSet(result[p].snapshot)

(* C26: once a removePrinter or removeNode has returned successfully, the
   printers it removed are not in the file, however the removal interleaved
   with an upsertPrinterStates call issued beside it. *)
RemovedStaysRemoved ==
    \A p, q \in Procs :
        ( /\ p # q
          /\ ReturnedOk(p)
          /\ op[p].name \in {"removePrinter", "removeNode"}
          /\ op[q].name \in {"none", "upsertPrinterStates"} ) =>
            RemovedBy(p) \cap PrinterIdsOnDisk = {}

(* C27: when no call is in flight and the file is one the store wrote, a
   cache that has not expired holds the snapshot of the file, however the
   reads, writes and cache assignments of a getSnapshot and a mutation
   interleaved. *)
FreshCacheIsFile ==
    ( /\ \A p \in Procs : pc[p] \in {"idle", "returned"}
      /\ lastWriter # 0
      /\ cacheFresh ) =>
        disk = Json(AsDoc(cache.snapshot))

(* The states map of a file. *)
StatesOnDisk(file) ==
    IF file.kind = "json" /\ file.doc.states.t = "object" THEN file.doc.states.map ELSE EmptyMap

(* The write of the upsertPrinterStates call in slot p completes. *)
UpsertWrites(p) ==
    pc[p] = "writing" /\ pc'[p] = "afterWrite" /\ op[p].name = "upsertPrinterStates"

(* Printer k has a state with a numeric updatedAt in the file. *)
Stamped(file, k) ==
    /\ k \in DOMAIN StatesOnDisk(file)
    /\ StatesOnDisk(file)[k].t = "object"
    /\ StatesOnDisk(file)[k].updatedAt.t = "number"

(* C28: a sync-states push never lowers the updatedAt of a printer's stored
   state: a push carrying an older state of a printer than the one stored
   does not replace it. *)
StoredStateNeverOlder ==
    [][\A p \in Procs :
          UpsertWrites(p) =>
              \A k \in DOMAIN StatesOnDisk(disk) :
                  (Stamped(disk, k) /\ Stamped(disk', k)) =>
                      StatesOnDisk(disk')[k].updatedAt.v >= StatesOnDisk(disk)[k].updatedAt.v]_vars

(* C29: the progress the registry page keeps for a printer is the progress
   of the summary printer-overview built: resolveProgress leaves the output
   of buildProgress as it is. *)
PageProgressIsProxyProgress ==
    telemetry.page.shown => telemetry.page.progress = telemetry.print.progress

(* C30: while the command center wants the console stream
   (consoleShouldReconnect), it is never left without a socket and without
   anything that will open one: a reconnect timer is pending, or a socket
   it closed itself has yet to report its close; and after teardown no
   reconnect timer is pending. *)
ConsoleAlwaysReconnects ==
    /\ center.destroyed => ~center.consoleReconnectTimer
    /\ (center.hydrated /\ center.consoleShouldReconnect /\ center.consoleSocket = "none") =>
          (center.consoleReconnectTimer \/ center.closing)

----------------------------------------------------------------------------
(* The state map of the registry page (routes/+page.svelte): what a poll of
   printer-overview makes of a printer's entry, and what the debounced
   upload sends to sync-states.  The server load gave no statusInitial. *)

SessionPrinters == {"p1", "p2"}

Summary(label, variant, progress, fetching, error, updatedAt, message) ==
    [label |-> label, variant |-> variant, progress |-> progress, fetching |-> fetching,
     error |-> error, updatedAt |-> updatedAt, message |-> message]

defaultPrinterState == Summary("Desconocido", "unknown", Null, FALSE, Null, Null, Null)

(* { ...printerStates, [id]: entry } *)
WithEntry(map, id, entry) ==
    [k \in DOMAIN map \cup {id} |-> IF k = id THEN entry ELSE map[k]]

ensurePrinterState(s, id) ==
    IF id \in DOMAIN s.printerStates THEN s
    ELSE [s EXCEPT !.printerStates =
              WithEntry(@, id, [defaultPrinterState EXCEPT !.fetching = TRUE])]

setPrinterState(s, id, patch) ==
    LET existing == IF id \in DOMAIN s.printerStates THEN s.printerStates[id]
                    ELSE defaultPrinterState
    IN  [s EXCEPT !.printerStates = WithEntry(@, id, patch @@ existing @@ defaultPrinterState)]

(* The entry without `fetching`, as it is stored. *)
StoredState(summary) == [f \in DOMAIN summary \ {"fetching"} |-> summary[f]]

serializePrinterStates(s) ==
    [id \in s.printers \cap DOMAIN s.printerStates |-> StoredState(s.printerStates[id])]

(* What the last step sent or received. *)
NoEvent == [kind |-> "none"]
Pushed(payload, ok) == [kind |-> "push", payload |-> payload, ok |-> ok]
Polled(id, ok, answer) == [kind |-> "poll", id |-> id, ok |-> ok, answer |-> answer]
Quietly(s) == [s EXCEPT !.last = NoEvent]

(* syncPrinterStates: nothing is sent when there is nothing to send; the
   answer, good or bad, changes nothing in the component. *)
syncPrinterStates(s, ok) ==
    LET payload == serializePrinterStates(s)
    IN  IF DOMAIN payload = {} THEN s ELSE [s EXCEPT !.last = Pushed(payload, ok)]

(* refreshPrinterState up to its fetch. *)
refreshPrinterState(s, id) ==
    LET ensured == ensurePrinterState(s, id)
    IN  IF id \in ensured.fetchingStates THEN ensured
        ELSE setPrinterState([ensured EXCEPT !.fetchingStates = @ \cup {id}], id,
                             [fetching |-> TRUE, error |-> Null])

RECURSIVE refreshEach(_, _)
refreshEach(s, targets) ==
    IF targets = {} THEN s
    ELSE LET id == CHOOSE k \in targets : TRUE
         IN  refreshEach(refreshPrinterState(s, id), targets \ {id})

refreshAll(s) == refreshEach(s, s.printers)

startPolling(s) ==
    IF s.stateInterval # 0 THEN s
    ELSE refreshAll([s EXCEPT !.stateInterval = REFRESH_INTERVAL])

(* refreshPrinterState after a good answer: payload.data.print. *)
pollSucceeded(s, id, print) ==
    LET display == resolveStateDisplay(print.state)
    IN  setPrinterState(s, id,
            [label |-> display.label, variant |-> display.variant,
             progress |-> resolveProgress(print.progress), message |-> print.message,
             fetching |-> FALSE, error |-> Null, updatedAt |-> Num(s.now)])

(* A failure that stamps the entry as a good answer does. *)
pollFailedStamped(s, id, message) ==
    setPrinterState(s, id,
        [fetching |-> FALSE, error |-> Str(message), variant |-> "error",
         label |-> "Error", message |-> Null, updatedAt |-> Num(s.now)])

(* refreshPrinterState after a failure, with the message of the error. *)
pollFailed(s, id, message) ==
    setPrinterState(s, id,
        [fetching |-> FALSE, error |-> Str(message), variant |-> "error",
         label |-> "Error", message |-> Null])

(* A finally block that leaves the poll in the in-flight set. *)
pollSettledHeld(s, id) == scheduleStateSync(s)

(* The finally block of refreshPrinterState. *)
pollSettled(s, id) == scheduleStateSync([s EXCEPT !.fetchingStates = @ \ {id}])

(* restorePrinterStates, then ensurePrinterState for every printer, on an
   empty map: applySnapshot, and the script of the component. *)
restorePrinterStates(stored, printers) ==
    [id \in DOMAIN stored \cap printers |->
        [fetching |-> FALSE] @@ stored[id] @@ defaultPrinterState]

applySnapshotStates(s, printers, stored) ==
    LET restored == restorePrinterStates(stored, printers)
    IN  [s EXCEPT !.printers = printers,
                  !.printerStates =
                      [id \in printers |->
                          IF id \in DOMAIN restored THEN restored[id]
                          ELSE [defaultPrinterState EXCEPT !.fetching = TRUE]]]

(* The block $: if (hydrated), on the map. *)
reactiveStates(s) ==
    IF ~Reacts(s) THEN s
    ELSE LET filtered == [s EXCEPT !.printerStates = [id \in DOMAIN @ \cap s.printers |-> @[id]]]
             polled == refreshEach(filtered, filtered.printers \ DOMAIN filtered.printerStates)
         IN  IF polled.printers # {} THEN startPolling(polled) ELSE stopStatePolling(polled)

(* What printer-overview may answer about the print, and the messages of
   the failures: the proxy's error, a body that is no JSON, no answer. *)
Overviews ==
    {[state |-> Str("Printing layer 12"), progress |-> Num(4200), message |-> Null],
     [state |-> Str("standby"), progress |-> Null, message |-> Str("listo")]}

PollFailures == {"No se pudo conectar", "Moonraker respondió 200", "Failed to fetch"}

(* The states a snapshot of the registry may hold. *)
StoredIdle == StoredState(Summary("Standby", "idle", Null, FALSE, Null, Num(0), Null))

StoredStates == {EmptyMap, [id \in {"p1"} |-> StoredIdle]}

CreatedSession(initial, stored) ==
    applySnapshotStates(
        [created |-> TRUE,
         hydrated |-> FALSE,
         destroyed |-> FALSE,
         printers |-> {},
         printerStates |-> EmptyMap,
         fetchingStates |-> {},
         stateInterval |-> 0,
         stateSyncTimer |-> 0,
         syncTimers |-> 0,
         awaiting |-> {},
         now |-> 0,
         last |-> NoEvent],
        initial, stored)

SessionMount ==
    /\ session.created /\ ~session.hydrated
    /\ session' = reactiveStates(startPolling(refreshAll(
                      [Quietly(session) EXCEPT !.hydrated = TRUE, !.awaiting = @ \cup {"refresh"}])))

SessionMutates ==
    /\ session.created /\ Reacts(session)
    /\ "mutation" \notin session.awaiting
    /\ session' = [Quietly(session) EXCEPT !.awaiting = @ \cup {"mutation"}]

SessionRegistryAnswers ==
    \E request \in RegistryRequests, printers \in SUBSET SessionPrinters, stored \in StoredStates :
        /\ session.created
        /\ request \in session.awaiting
        /\ session' = reactiveStates(applySnapshotStates(
                          [Quietly(session) EXCEPT !.awaiting = @ \ {request}], printers, stored))

SessionRegistryRefuses ==
    \E request \in RegistryRequests :
        /\ session.created
        /\ request \in session.awaiting
        /\ session' = [Quietly(session) EXCEPT !.awaiting = @ \ {request}]

SessionIntervalTick ==
    /\ session.created
    /\ session.stateInterval # 0
    /\ session' = reactiveStates(refreshAll(Quietly(session)))

PollSucceeds ==
    \E id \in SessionPrinters, print \in Overviews :
        /\ session.created
        /\ id \in session.fetchingStates
        /\ session' = reactiveStates(
                          [pollSettled(pollSucceeded(session, id, print), id)
                              EXCEPT !.last = Polled(id, TRUE, print)])

PollFails ==
    \E id \in SessionPrinters, message \in PollFailures :
        /\ session.created
        /\ id \in session.fetchingStates
        /\ session' = reactiveStates(
                          [pollSettled(pollFailed(session, id, message), id)
                              EXCEPT !.last = Polled(id, FALSE, message)])

SessionSyncTimerFires ==
    \E ok \in BOOLEAN :
        /\ session.created
        /\ session.stateSyncTimer # 0
        /\ session' = syncPrinterStates(
                          [Quietly(session) EXCEPT !.stateSyncTimer = 0, !.syncTimers = @ - 1], ok)

SessionDestroy ==
    /\ session.created /\ Reacts(session)
    /\ session' = [clearStateSyncTimer(stopStatePolling(Quietly(session))) EXCEPT !.destroyed = TRUE]

(* Time passes in the browser. *)
SessionClock ==
    /\ session.created
    /\ session.now + TickMs <= MaxClock
    /\ session' = [Quietly(session) EXCEPT !.now = @ + TickMs]

SessionInit ==
    /\ disk = Missing
    /\ StoreInit
    /\ http = [p \in Procs |-> NoHttp]
    /\ proxy = NoProxy
    /\ telemetry = NoTelemetry
    /\ page = NoPage
    /\ center = NoCenter
    /\ \E initial \in SUBSET SessionPrinters, stored \in StoredStates :
           session = CreatedSession(initial, stored)

SessionNext ==
    \/ SessionMount /\ UNCHANGED beyondSession
    \/ SessionMutates /\ UNCHANGED beyondSession
    \/ SessionRegistryAnswers /\ UNCHANGED beyondSession
    \/ SessionRegistryRefuses /\ UNCHANGED beyondSession
    \/ SessionIntervalTick /\ UNCHANGED beyondSession
    \/ PollSucceeds /\ UNCHANGED beyondSession
    \/ PollFails /\ UNCHANGED beyondSession
    \/ SessionSyncTimerFires /\ UNCHANGED beyondSession
    \/ SessionDestroy /\ UNCHANGED beyondSession
    \/ SessionClock /\ UNCHANGED beyondSession

SessionSpec == SessionInit /\ [][SessionNext]_vars

----------------------------------------------------------------------------
(* The members of an entry that are uploaded. *)
StoredFields == {"label", "variant", "progress", "error", "updatedAt", "message"}

(* The step ends a poll; the step is the debounce timer firing. *)
PollEnds == session'.last.kind = "poll"
SyncTimerFired ==
    /\ session.stateSyncTimer # 0 /\ session'.stateSyncTimer = 0
    /\ session'.destroyed = session.destroyed

(* The payload is the whole map of s: every printer of the list that has an
   entry, with every stored member of the entry. *)
IsFullMap(payload, s) ==
    /\ DOMAIN payload = s.printers \cap DOMAIN s.printerStates
    /\ \A id \in DOMAIN payload :
           /\ DOMAIN payload[id] = StoredFields
           /\ \A f \in StoredFields : payload[id][f] = s.printerStates[id][f]

(* C21: at most one debounce timer is pending, and the component holds its
   handle; the end of a poll, good or bad, leaves a timer of 800 ms
   pending; when the timer fires and a printer of the list has an entry,
   the whole map is sent to sync-states, and otherwise nothing is; a push
   that fails leaves the map, the polls in flight and the polling interval
   as they are, and sets no timer. *)
DebouncedPush ==
    /\ [](session.created =>
            /\ session.syncTimers <= 1
            /\ (session.stateSyncTimer # 0) = (session.syncTimers = 1)
            /\ session.stateSyncTimer \in {0, STATE_SYNC_DELAY})
    /\ [][PollEnds => session'.stateSyncTimer = STATE_SYNC_DELAY]_vars
    /\ [][SyncTimerFired =>
            IF session.printers \cap DOMAIN session.printerStates # {}
            THEN session'.last.kind = "push" /\ IsFullMap(session'.last.payload, session)
            ELSE session'.last = NoEvent]_vars
    /\ [][(session'.last.kind = "push" /\ ~session'.last.ok) =>
            /\ session'.printerStates = session.printerStates
            /\ session'.fetchingStates = session.fetchingStates
            /\ session'.stateInterval = session.stateInterval
            /\ session'.syncTimers = 0]_vars

(* The mounted page sent the entries of both printers, one of them taken
   at a later time than the other, and the push failed; the interval runs
   and a poll is in flight. *)
DebouncedPushWitness ==
    /\ session.created /\ Reacts(session)
    /\ session.last.kind = "push" /\ ~session.last.ok
    /\ DOMAIN session.last.payload = SessionPrinters
    /\ session.last.payload["p1"].updatedAt # session.last.payload["p2"].updatedAt
    /\ session.stateInterval = REFRESH_INTERVAL
    /\ session.fetchingStates # {}

(* The entry of printer id in the map of s, or the defaults. *)
EntryOf(s, id) ==
    IF id \in DOMAIN s.printerStates THEN s.printerStates[id] ELSE defaultPrinterState

(* The entries of the printers other than id are the same in both maps. *)
OthersUntouched(id) ==
    \A other \in SessionPrinters \ {id} :
        /\ (other \in DOMAIN session'.printerStates) = (other \in DOMAIN session.printerStates)
        /\ other \in DOMAIN session.printerStates =>
              session'.printerStates[other] = session.printerStates[other]

(* C22: the end of a poll of printer p, when p keeps its entry: a failure
   sets variant "error", label "Error", message null and error to the
   reason, and leaves updatedAt (and progress) as they were; a good answer
   sets label and variant from the state of the answer, progress and
   message from the answer, error null and updatedAt to the current time;
   either way the entries of the other printers are as before. *)
PollFrame ==
    [][PollEnds =>
         LET id == session'.last.id
             answer == session'.last.answer
             old == EntryOf(session, id)
         IN  /\ OthersUntouched(id)
             /\ id \in DOMAIN session'.printerStates =>
                   LET new == session'.printerStates[id]
                   IN  IF session'.last.ok
                       THEN /\ new.label = resolveStateDisplay(answer.state).label
                            /\ new.variant = resolveStateDisplay(answer.state).variant
                            /\ new.progress = resolveProgress(answer.progress)
                            /\ new.message = answer.message
                            /\ new.error = Null
                            /\ new.updatedAt = Num(session.now)
                            /\ ~new.fetching
                       ELSE /\ new.variant = "error"
                            /\ new.label = "Error"
                            /\ new.message = Null
                            /\ new.error = Str(answer)
                            /\ new.updatedAt = old.updatedAt
                            /\ new.progress = old.progress
                            /\ ~new.fetching]_vars

(* A poll of p2 has just failed, later than its last good answer: the entry
   says "Error" and keeps the time and the progress of the good answer,
   while the entry of p1 carries the later time of its own good answer. *)
PollFrameWitness ==
    /\ session.created /\ Reacts(session)
    /\ session.last.kind = "poll" /\ session.last.id = "p2" /\ ~session.last.ok
    /\ session.now = TickMs
    /\ DOMAIN session.printerStates = SessionPrinters
    /\ session.printerStates["p2"].label = "Error"
    /\ session.printerStates["p2"].updatedAt = Num(0)
    /\ session.printerStates["p2"].progress = Num(4200)
    /\ session.printerStates["p1"].label = "Imprimiendo"
    /\ session.printerStates["p1"].updatedAt = Num(TickMs)

(* C23: while the page is mounted and lists a printer, the polling interval
   is armed; a poll that fails, whatever the failure, is no longer in
   flight afterwards and leaves the interval and the other polls as they
   were; and a tick of the interval leaves a poll in flight for every
   printer of the list, the one whose poll failed included. *)
FailureKeepsPolling ==
    /\ []((session.created /\ Reacts(session) /\ session.printers # {}) =>
             session.stateInterval = REFRESH_INTERVAL)
    /\ [][(PollEnds /\ ~session'.last.ok) =>
             /\ session'.last.id \notin session'.fetchingStates
             /\ session'.stateInterval = session.stateInterval
             /\ session'.fetchingStates = session.fetchingStates \ {session'.last.id}]_vars
    /\ [][SessionIntervalTick =>
             /\ session'.printers = session.printers
             /\ session.printers \subseteq session'.fetchingStates
             /\ session'.stateInterval = session.stateInterval]_vars

(* The poll of p2 failed and the interval has ticked since: p2 is polled
   again, its entry still says "Error", and p1 is polled beside it. *)
FailureKeepsPollingWitness ==
    /\ session.created /\ Reacts(session)
    /\ session.stateInterval = REFRESH_INTERVAL
    /\ session.fetchingStates = SessionPrinters
    /\ DOMAIN session.printerStates = SessionPrinters
    /\ session.printerStates["p2"].variant = "error"
    /\ session.printerStates["p2"].fetching
    /\ session.printerStates["p2"].error = Null
    /\ session.printerStates["p1"].variant = "idle"

(* C24: when the poll of a printer that has left the list ends, the map
   holds no entry for that printer afterwards; and no payload sent to
   sync-states names a printer that is not in the list. *)
SupersededPollDiscarded ==
    /\ [][(PollEnds /\ session'.last.id \notin session'.printers) =>
             session'.last.id \notin DOMAIN session'.printerStates]_vars
    /\ [](session.created /\ session.last.kind = "push" =>
             DOMAIN session.last.payload \subseteq session.printers)

(* The same for polls that end while the page is mounted, where the
   reactive block drops the entry again. *)
SupersededPollDiscardedWhileMounted ==
    /\ [][(PollEnds /\ Reacts(session) /\ session'.last.id \notin session'.printers) =>
             session'.last.id \notin DOMAIN session'.printerStates]_vars
    /\ [](session.created /\ session.last.kind = "push" =>
             DOMAIN session.last.payload \subseteq session.printers)

====
